---- MODULE Spec2Model ----
(***************************************************************************)
(* Protocol core of mcp-golang (src/stdio.go, package protocol) running on *)
(* the mockTransport of src/internal/protocol/mock_transport_test.go.      *)
(*                                                                         *)
(* Every goroutine of the program is a slot with a program counter.  The   *)
(* Protocol's RWMutex p.mu is held across several steps only by            *)
(* handleClose (which sends on channels and calls OnClose under the lock); *)
(* every other critical section is one atomic step guarded by mu = 0.      *)
(***************************************************************************)
EXTENDS Integers, Sequences, FiniteSets, Bags, TLC

\* ----------------------------------------------------------------- bounds
MaxRequests == 2
MaxResponses == 2
MaxInbound == 2
MaxNotifs == 1
MaxCloses == 2
MaxNameLen == 2   \* longest tool / prompt name and resource URI, in bytes
MaxLimit == 2     \* largest pagination limit
MaxPages == 9     \* most pages a peer fetches in one walk of a list
MaxNotes == 2     \* most list_changed notifications the server sends
MaxMutators == 2  \* goroutines calling Register / Deregister concurrently
MaxMutations == 2 \* Store and Delete calls they make in all

ReqCalls == 1..MaxRequests
InSlots == 1..MaxInbound
NotifSlots == 1..MaxNotifs
InIds == 0..(MaxInbound - 1)
RespSlots == 1..MaxResponses
CloseCalls == 1..MaxCloses
OutIds == 0..(MaxRequests - 1)
NoId == 0 - 1

\* RequestOptions / params given to Request: no OnProgress; OnProgress with
\* nil or map params; OnProgress with params that are neither.
OptKinds == {"plain", "progress", "progressBadParams"}
\* what handleResponse is given: a success response, a JSONRPCError, or a
\* success response whose "id" is no number
RespKinds == {"result", "error", "badid"}

VARIABLES
    transport,            \* p.transport: "nil" or "mock"
    started,              \* mockTransport.started
    closed,               \* mockTransport.closed
    messages,             \* mockTransport.messages, as a bag: the order in which
                          \* different goroutines reach Send is not kept
    mu,                   \* p.mu: 0 free, k > 0 write-locked by handleClose of Close call k
    requestMessageID,     \* p.requestMessageID
    responseHandlers,     \* p.responseHandlers: ids that map to their channel
    progressHandlers,     \* p.progressHandlers: ids that map to a callback
    chans,                \* the response channels, by the id they were made for
    onCloseCalls,         \* how many times p.OnClose ran
    onErrorCalls,         \* the errors p.OnError was given
    req,                  \* the Request calls
    resp,                 \* the handleResponse invocations
    cls,                  \* the Close calls; on: the id whose channel handleClose
                          \* is blocked sending to
    dropped,              \* ids of pending requests whose response the Connect
                          \* message handler was handed and let fall
    panicked,             \* a goroutine panicked (send on a closed channel)
    requestHandlers,      \* p.requestHandlers: the methods that map to a handler
    notificationHandlers, \* p.notificationHandlers: the methods that map to a handler
    requestCancellers,    \* p.requestCancellers: inbound id -> the handler slot whose
                          \* context the stored cancel func cancels (0: no entry)
    FallbackRequestHandler,      \* p.FallbackRequestHandler # nil
    FallbackNotificationHandler, \* p.FallbackNotificationHandler # nil
    inb,                  \* the inbound requests (handleRequest and its goroutine)
    ntf,                  \* the inbound notifications (handleNotification and its goroutine)
    progressCalls,        \* the progress callbacks that ran: <<token, progress, total>>
    isRunning,            \* s.isRunning
    paginationLimit,      \* s.paginationLimit: <<>> for nil, <<L>> for a pointer to L
    tools,                \* s.tools: name -> the handler registered (0: no entry)
    prompts,              \* s.prompts: name -> the handler registered (0: no entry)
    resources,            \* s.resources: uri -> the handler registered (0: no entry)
    srv,                  \* the Serve call
    reg,                  \* the Register / Deregister call in progress: its kind of
                          \* registry, its key and its handler (0 for Deregister)
    reply,                \* the answer the transport carried to the peer for its last
                          \* request to the server, with the request it answers
    walk,                 \* the peer following nextCursor through one list
    initialized,          \* c.initialized of the Client
    cli,                  \* the Client call in progress, and the method each Request
                          \* call of the Protocol was made for
    wire,                 \* the byte stream arriving at the ReadBuffer
    fed,                  \* how many bytes of it Append has been given
    buffer,               \* rb.buffer: <<>> is nil, <<bytes>> a slice
    lines,                \* the lines ReadMessage has handed to deserializeMessage
    lastRead,             \* what the last ReadMessage found: <<>> nothing, <<line>> a line
    returned,             \* what ReadMessage returned for each line, in order: the type
                          \* of the message, "failed" for an error
    posts,                \* the bodies SSETransport.HandleMessage was given, in order,
                          \* each with what it did
    doc,                  \* the JSON text of an incoming message, by the members it has
    strict,               \* whether the decoders of the message types check required members
    parsed,               \* what deserializeMessage returned for it
    handled,              \* what HandleMessage did with it
    isConnected,          \* t.isConnected of the SSETransport
    tmu,                  \* t.mu: 0 free, else the caller holding it
    written,              \* what has been written to t.writer, in order
    closeCallbacks,       \* how many times t.OnClose has been invoked
    sse,                  \* the callers of the SSETransport: the call each is in
    mut,                  \* the goroutines calling Register / Deregister concurrently
    history,              \* the Store and Delete calls on the registries, in the order
                          \* they took effect
    announced             \* the places in history whose list_changed notification
                          \* the transport has taken

lifeVars == <<transport, started, closed>>
outMaps == <<requestMessageID, responseHandlers, progressHandlers, chans>>
cbVars == <<onCloseCalls, onErrorCalls>>

regVars == <<requestHandlers, notificationHandlers, FallbackRequestHandler,
             FallbackNotificationHandler>>
inVars == <<regVars, requestCancellers, inb, ntf, progressCalls>>

registries == <<tools, prompts, resources>>
srvVars == <<isRunning, paginationLimit, registries, srv, reg, reply, walk>>

cliVars == <<initialized, cli>>
bufVars == <<wire, fed, buffer, lines, lastRead, returned, posts>>
msgVars == <<doc, strict, parsed, handled>>
sseVars == <<isConnected, tmu, written, closeCallbacks, sse>>
mutVars == <<mut, history, announced>>
ioVars == <<bufVars, msgVars, sseVars, mutVars>>
moreVars == <<cliVars, ioVars>>

vars == <<lifeVars, messages, mu, outMaps, cbVars, req, resp, cls, dropped, panicked, inVars,
          srvVars, moreVars>>

\* ---------------------------------------------------------------- values
NewChan == [buf |-> <<>>, closed |-> FALSE]

\* responseEnvelope; rid is the id the response carried (NoId: made by handleClose)
Envelope(rid, err) == [rid |-> rid, err |-> err]

IdleReq == [pc |-> "idle", id |-> NoId, opt |-> "plain", res |-> "", rid |-> NoId]
IdleResp == [pc |-> "idle", id |-> NoId, kind |-> "", ch |-> NoId]
IdleCls == [pc |-> "idle", on |-> NoId]
DoneResp == [pc |-> "done", id |-> NoId, kind |-> "", ch |-> NoId]

\* a JSON-RPC message as handed to transport.Send
Msg(kind, id, method, code, text, ref) ==
    [kind |-> kind, id |-> id, method |-> method, code |-> code, text |-> text, ref |-> ref]

\* an inbound request: h is the handler handleRequest found, ctx the state of
\* the context made for it, out what the handler returned ("ok" or its error)
IdleIn == [pc |-> "idle", id |-> NoId, h |-> "", ctx |-> "live", out |-> ""]
\* progress and total of a notification that carries none
NoVal == <<0, 0>>
\* an inbound notification: h is the handler handleNotification found, arg the
\* requestId or progressToken of its params, val their progress and total
IdleNtf == [pc |-> "idle", h |-> "", arg |-> NoId, val |-> NoVal]
DoneNtf == [pc |-> "done", h |-> "", arg |-> NoId, val |-> NoVal]
\* params that do not unmarshal
BadArg == 0 - 2

Running == ~panicked

\* slots are taken in order: which goroutine is "first" is not observable
Fresh(f, i) == f[i].pc = "idle" /\ (IF i = 1 THEN TRUE ELSE f[i - 1].pc # "idle")

\* ------------------------------------------------------- names and order
\* names and URIs are byte strings, here over the bytes of "a" and "b"
Alphabet == {97, 98}
Names == UNION {[1..n -> Alphabet] : n \in 0..MaxNameLen}

\* s < t for Go strings: byte-wise lexicographic, a proper prefix comes first
RECURSIVE LexLess(_, _)
LexLess(s, t) ==
    IF Len(s) = 0 THEN Len(t) > 0
    ELSE IF Len(t) = 0 THEN FALSE
    ELSE IF s[1] # t[1] THEN s[1] < t[1]
    ELSE LexLess(Tail(s), Tail(t))

\* sort.Slice(ordered, func(i, j int) bool { return ordered[i].Name < ordered[j].Name })
\* on the keys of a registry (keys are unique)
RECURSIVE SortByName(_)
SortByName(S) ==
    IF S = {} THEN <<>>
    ELSE LET m == CHOOSE x \in S : \A y \in S \ {x} : LexLess(x, y)
         IN  <<m>> \o SortByName(S \ {m})

\* ---------------------------------------------------------- server values
MaxHandlers == 2  \* distinct user handlers that can be registered
Handlers == 1..MaxHandlers
IdleSrv == [pc |-> "idle", res |-> ""]
IdleReg == [pc |-> "idle", kind |-> "", key |-> <<>>, h |-> 0]
Mutators == 1..MaxMutators
\* live: the transport had been started when the Store or Delete was made
IdleMut ==
    [pc |-> "idle", kind |-> "", key |-> <<>>, h |-> 0, at |-> 0, res |-> "", live |-> FALSE]
\* a reply, with the request it answers (and, for a call, what the user handler
\* returned if it ran): kind "none" (nothing asked yet), "result", "error" (a JSON-RPC
\* error response) or "panic" (the handler goroutine panicked)
NoReply ==
    [method |-> "", name |-> <<>>, cursor |-> <<>>, kind |-> "none", code |-> 0, text |-> "",
     items |-> <<>>, next |-> <<>>, args |-> "", ran |-> 0, outcome |-> "", isError |-> FALSE, content |-> "",
     version |-> "", caps |-> <<>>]
IdleWalk == [method |-> "", st |-> "idle", got |-> <<>>, pages |-> 0, next |-> <<>>]

\* ---------------------------------------------------------- client values
ClientOps ==
    {"Initialize", "ListTools", "CallTool", "ListPrompts", "GetPrompt", "ListResources",
     "ReadResource", "Ping"}
\* no Client call in progress; used: the Client method each Request call was made for
IdleCli == [pc |-> "idle", op |-> "", slot |-> 0, res |-> "", used |-> [c \in ReqCalls |-> ""]]

\* --------------------------------------------------------- message values
\* a JSON text: whether it parses as an object, and which members it has.
\* method: "absent", "empty" (the empty string) or "name"; error: "absent",
\* "zero" (an error object with code 0) or "code" (one with a code other than 0)
Docs ==
    [valid : BOOLEAN, id : BOOLEAN, jsonrpc : BOOLEAN, method : {"absent", "empty", "name"},
     error : {"absent", "zero", "code"}, result : BOOLEAN]
NoDoc ==
    [valid |-> FALSE, id |-> FALSE, jsonrpc |-> FALSE, method |-> "absent", error |-> "absent",
     result |-> FALSE]

\* ---------------------------------------------------- SSETransport values
MaxCallers == 2
MaxEvents == 3
SseCallers == 1..MaxCallers
\* a caller in no call; op and res are its last call and what it returned
IdleSse == [pc |-> "idle", op |-> "", res |-> ""]

\* ------------------------------------------------------------------ Init
\* NewProtocol
InitProtocol ==
    /\ transport = "nil"
    /\ started = FALSE
    /\ closed = FALSE
    /\ messages = EmptyBag
    /\ mu = 0
    /\ requestMessageID = 0
    /\ responseHandlers = {}
    /\ progressHandlers = {}
    /\ chans = [i \in OutIds |-> NewChan]
    /\ onCloseCalls = 0
    /\ onErrorCalls = {}
    /\ req = [c \in ReqCalls |-> IdleReq]
    /\ resp = [r \in RespSlots |-> IdleResp]
    /\ cls = [k \in CloseCalls |-> IdleCls]
    /\ dropped = {}
    /\ panicked = FALSE
    /\ requestHandlers = {"ping"}
    /\ notificationHandlers = {"notifications/cancelled", "$/progress"}
    /\ requestCancellers = [i \in InIds |-> 0]
    /\ FallbackRequestHandler = FALSE
    /\ FallbackNotificationHandler = FALSE
    /\ inb = [g \in InSlots |-> IdleIn]
    /\ ntf = [n \in NotifSlots |-> IdleNtf]
    /\ progressCalls = {}

\* NewServer with its options, and the entries S registered before Serve,
\* each with handler 1, in the three registries
ServerWith(limit, S) ==
    /\ isRunning = FALSE
    /\ paginationLimit = limit
    /\ tools = [k \in Names |-> IF k \in S THEN 1 ELSE 0]
    /\ prompts = [k \in Names |-> IF k \in S THEN 1 ELSE 0]
    /\ resources = [k \in Names |-> IF k \in S THEN 1 ELSE 0]
    /\ srv = IdleSrv
    /\ reg = IdleReg
    /\ reply = NoReply
    /\ walk = IdleWalk
    /\ mut = [w \in Mutators |-> IdleMut]
    /\ history = <<>>
    /\ announced = {}

\* NewClient
NewClient ==
    /\ initialized = FALSE
    /\ cli = IdleCli

\* NewReadBuffer, with the stream that will arrive
NewReadBuffer(stream) ==
    /\ wire = stream
    /\ fed = 0
    /\ buffer = <<>>
    /\ lines = <<>>
    /\ lastRead = <<>>
    /\ returned = <<>>
    /\ posts = <<>>

\* no message has arrived
NoMessage ==
    /\ doc = NoDoc
    /\ strict = TRUE
    /\ parsed = "none"
    /\ handled = "none"

\* NewSSETransport
NewSSETransport ==
    /\ isConnected = FALSE
    /\ tmu = 0
    /\ written = <<>>
    /\ closeCallbacks = 0
    /\ sse = [k \in SseCallers |-> IdleSse]

\* the transports at construction, nothing arriving
NewIO == NewReadBuffer(<<>>) /\ NoMessage /\ NewSSETransport

\* NewProtocol, NewServer without options, NewClient
Init == InitProtocol /\ ServerWith(<<>>, {}) /\ NewClient /\ NewIO

\* --------------------------------------------------------- mockTransport
\* mockTransport.Send: appends, never fails
Send(msgs, m) == msgs (+) SetToBag({m})

\* --------------------------------------------------------------- Connect
Connect ==
    /\ Running
    /\ transport = "nil"
    /\ transport' = "mock"
    /\ started' = TRUE
    /\ UNCHANGED <<closed, messages, mu, outMaps, cbVars, req, resp, cls, dropped, panicked, inVars,
                   srvVars, moreVars>>

\* --------------------------------------------------------------- Request
\* the request Request sends; ref is params._meta.progressToken
RequestMessage(id, opt) ==
    Msg("request", id, "test_method", 0, "", IF opt = "progress" THEN id ELSE NoId)

\* an allocation that leaves the counter where it was
NextRequestId_same(id) == id

\* p.requestMessageID++
NextRequestId(id) == id + 1

\* Request up to the end of its first critical section: the transport check,
\* then id allocation and registration under p.mu
Request_register(c, opt) ==
    /\ Running
    /\ Fresh(req, c)
    /\ IF transport = "nil"
       THEN /\ req' = [req EXCEPT ![c] = [IdleReq EXCEPT !.pc = "done", !.res = "not connected"]]
            /\ UNCHANGED outMaps
       ELSE /\ mu = 0
            /\ requestMessageID < MaxRequests
            /\ LET id == requestMessageID IN
               /\ requestMessageID' = NextRequestId(id)
               /\ chans' = [chans EXCEPT ![id] = NewChan]
               /\ responseHandlers' = responseHandlers \cup {id}
               /\ progressHandlers' = IF opt = "plain" THEN progressHandlers
                                      ELSE progressHandlers \cup {id}
               /\ req' = [req EXCEPT ![c] = [IdleReq EXCEPT !.pc = "build", !.id = id, !.opt = opt]]
    /\ UNCHANGED <<lifeVars, messages, mu, cbVars, resp, cls, dropped, panicked, inVars,
                   srvVars, moreVars>>

\* Request sending params that are no map as they are, without the token
Request_send_dropToken(c) ==
    /\ Running
    /\ req[c].pc = "build"
    /\ messages' = Send(messages, RequestMessage(req[c].id,
                            IF req[c].opt = "progress" THEN "progress" ELSE "plain"))
    /\ req' = [req EXCEPT ![c].pc = "select"]
    /\ UNCHANGED <<lifeVars, mu, outMaps, cbVars, resp, cls, dropped, panicked, inVars,
                   srvVars, moreVars>>

\* Request: the progress meta and transport.Send
Request_send(c) ==
    /\ Running
    /\ req[c].pc = "build"
    /\ IF req[c].opt = "progressBadParams"
       THEN /\ req' = [req EXCEPT ![c].pc = "defer",
                                  ![c].res = "params must be nil or map"]
            /\ UNCHANGED messages
       ELSE /\ messages' = Send(messages, RequestMessage(req[c].id, req[c].opt))
            /\ req' = [req EXCEPT ![c].pc = "select"]
    /\ UNCHANGED <<lifeVars, mu, outMaps, cbVars, resp, cls, dropped, panicked, inVars,
                   srvVars, moreVars>>

\* the result of Request for an envelope
EnvelopeResult(env) == IF env.err # "" THEN env.err ELSE "result"

\* Request, select case envelope := <-ch
Request_recv(c) ==
    /\ Running
    /\ req[c].pc = "select"
    /\ LET ch == chans[req[c].id] IN
       /\ Len(ch.buf) > 0
       /\ chans' = [chans EXCEPT ![req[c].id].buf = Tail(ch.buf)]
       /\ req' = [req EXCEPT ![c].pc = "defer", ![c].res = EnvelopeResult(Head(ch.buf)),
                             ![c].rid = Head(ch.buf).rid]
    /\ UNCHANGED <<lifeVars, messages, mu, requestMessageID, responseHandlers,
                   progressHandlers, cbVars, resp, cls, dropped, panicked, inVars, srvVars,
                   moreVars>>

\* a cancel notification that does not name the request
sendCancelNotification_noId(msgs, requestID, reason) ==
    Send(msgs, Msg("notification", NoId, "notifications/cancelled", 0, reason, NoId))

\* sendCancelNotification; ref is params.requestId
sendCancelNotification(msgs, requestID, reason) ==
    Send(msgs, Msg("notification", NoId, "notifications/cancelled", 0, reason, requestID))

\* Request, select cases <-opts.Context.Done() and <-time.After(opts.Timeout)
Request_cancel(c, why) ==
    /\ Running
    /\ req[c].pc = "select"
    /\ why \in {"context canceled", "request timeout"}
    /\ messages' = sendCancelNotification(messages, req[c].id, why)
    /\ req' = [req EXCEPT ![c].pc = "defer", ![c].res = why]
    /\ UNCHANGED <<lifeVars, mu, outMaps, cbVars, resp, cls, dropped, panicked, inVars,
                   srvVars, moreVars>>

\* a deferred func that forgets the progress callback
Request_defer_keepProgress(c) ==
    /\ Running
    /\ req[c].pc = "defer"
    /\ mu = 0
    /\ responseHandlers' = responseHandlers \ {req[c].id}
    /\ progressHandlers' = progressHandlers
    /\ req' = [req EXCEPT ![c].pc = "done", ![c].opt = "plain"]
    /\ UNCHANGED <<lifeVars, messages, mu, requestMessageID, chans, cbVars, resp, cls,
                   dropped, panicked, inVars, srvVars, moreVars>>

\* Request, the deferred func: deregisters under p.mu, then Request returns
Request_defer(c) ==
    /\ Running
    /\ req[c].pc = "defer"
    /\ mu = 0
    /\ responseHandlers' = responseHandlers \ {req[c].id}
    /\ progressHandlers' = progressHandlers \ {req[c].id}
    /\ req' = [req EXCEPT ![c].pc = "done", ![c].opt = "plain"]
    /\ UNCHANGED <<lifeVars, messages, mu, requestMessageID, chans, cbVars, resp, cls,
                   dropped, panicked, inVars, srvVars, moreVars>>

\* -------------------------------------------------------- handleResponse
\* handleResponse has no caller in src/stdio.go; it is an entry point here, so
\* that what it does with a response is decided by its code.

\* a lookup that ignores the id and yields the oldest registered channel
LookupResponseHandler_oldest(id) ==
    IF responseHandlers = {} THEN NoId
    ELSE CHOOSE j \in responseHandlers : \A i \in responseHandlers : j <= i

\* ch := p.responseHandlers[id]; NoId is the nil channel
LookupResponseHandler(id) == IF id \in responseHandlers THEN id ELSE NoId

\* the envelope handleResponse builds
ResponseEnvelope(id, kind) == Envelope(id, IF kind = "error" THEN "RPC error" ELSE "")

\* handleResponse up to the end of its critical section
handleResponse_lookup(r, id, kind) ==
    /\ Running
    /\ started
    /\ Fresh(resp, r)
    /\ IF kind = "badid"
       THEN /\ onErrorCalls' = onErrorCalls \cup {"unexpected id type"}
            /\ resp' = [resp EXCEPT ![r] = DoneResp]
       ELSE /\ mu = 0
            /\ LET ch == LookupResponseHandler(id) IN
               resp' = [resp EXCEPT ![r] = IF ch = NoId THEN DoneResp
                                            ELSE [pc |-> "send", id |-> id, kind |-> kind, ch |-> ch]]
            /\ UNCHANGED onErrorCalls
    /\ UNCHANGED <<lifeVars, messages, mu, outMaps, onCloseCalls, req, cls, dropped,
                   panicked, inVars, srvVars, moreVars>>

\* handleResponse: ch <- &responseEnvelope{...}; blocks while the buffer is full
handleResponse_send(r) ==
    /\ Running
    /\ resp[r].pc = "send"
    /\ LET ch == chans[resp[r].ch] IN
       IF ch.closed
       THEN /\ panicked' = TRUE
            /\ UNCHANGED <<chans, resp>>
       ELSE /\ Len(ch.buf) < 1
            /\ chans' = [chans EXCEPT ![resp[r].ch].buf =
                             Append(ch.buf, ResponseEnvelope(resp[r].id, resp[r].kind))]
            /\ resp' = [resp EXCEPT ![r] = DoneResp]
            /\ UNCHANGED panicked
    /\ UNCHANGED <<lifeVars, messages, mu, requestMessageID, responseHandlers,
                   progressHandlers, cbVars, req, cls, dropped, inVars, srvVars, moreVars>>

\* ------------------------------------------- Connect's message handler
\* the switch of the func Connect gives to SetMessageHandler
MessageRoute(type) ==
    CASE type = "request" -> "handleRequest"
      [] type = "notification" -> "handleNotification"
      [] OTHER -> "none"

\* the transport hands the message handler a response: no case of the switch
OnMessage_response(id) ==
    /\ Running
    /\ started
    /\ MessageRoute("response") = "none"
    /\ \E c \in ReqCalls : req[c].pc = "select" /\ req[c].id = id
    /\ id \notin dropped
    /\ dropped' = dropped \cup {id}
    /\ UNCHANGED <<lifeVars, messages, mu, outMaps, cbVars, req, resp, cls, panicked, inVars,
                   srvVars, moreVars>>

\* ------------------------------------------------------------------ Close
\* the contexts cancelled by "for _, cancel := range p.requestCancellers { cancel() }"
CancelAll(f) ==
    [g \in InSlots |-> IF \E i \in InIds : requestCancellers[i] = g
                       THEN [f[g] EXCEPT !.ctx = "cancelled"] ELSE f[g]]

\* Protocol.Close -> mockTransport.Close -> onClose -> handleClose, up to the
\* loop over p.responseHandlers
Close(k) ==
    /\ Running
    /\ Fresh(cls, k)
    /\ IF transport = "nil"
       THEN /\ cls' = [cls EXCEPT ![k].pc = "done"]
            /\ UNCHANGED <<closed, mu, requestHandlers, notificationHandlers,
                           requestCancellers, inb>>
       ELSE /\ closed' = TRUE
            /\ mu = 0
            /\ mu' = k
            /\ requestHandlers' = {}
            /\ notificationHandlers' = {}
            /\ inb' = CancelAll(inb)
            /\ requestCancellers' = [i \in InIds |-> 0]
            /\ cls' = [cls EXCEPT ![k].pc = "wake"]
    /\ UNCHANGED <<transport, started, messages, outMaps, cbVars, req, resp, dropped,
                   panicked, FallbackRequestHandler, FallbackNotificationHandler, ntf, progressCalls,
                   srvVars, moreVars>>

\* ch <- &responseEnvelope{err: "connection closed"}; close(ch); delete(p.responseHandlers, id)
WakeChannel(id) ==
    /\ chans' = [chans EXCEPT ![id] =
                     [buf |-> Append(chans[id].buf, Envelope(NoId, "connection closed")),
                      closed |-> TRUE]]
    /\ responseHandlers' = responseHandlers \ {id}

\* handleClose, one turn of the loop, for the id the range yields: the send
\* goes through, or blocks on a full buffer with p.mu held
handleClose_wake(k, id) ==
    /\ Running
    /\ cls[k].pc = "wake"
    /\ id \in responseHandlers
    /\ IF Len(chans[id].buf) < 1
       THEN /\ WakeChannel(id)
            /\ UNCHANGED cls
       ELSE /\ cls' = [cls EXCEPT ![k] = [pc |-> "blocked", on |-> id]]
            /\ UNCHANGED <<chans, responseHandlers>>
    /\ UNCHANGED <<lifeVars, messages, mu, requestMessageID, progressHandlers, cbVars,
                   req, resp, dropped, panicked, inVars, srvVars, moreVars>>

\* handleClose, the blocked send goes through once the buffer has room
handleClose_unblock(k) ==
    /\ Running
    /\ cls[k].pc = "blocked"
    /\ Len(chans[cls[k].on].buf) < 1
    /\ WakeChannel(cls[k].on)
    /\ cls' = [cls EXCEPT ![k] = [pc |-> "wake", on |-> NoId]]
    /\ UNCHANGED <<lifeVars, messages, mu, requestMessageID, progressHandlers, cbVars,
                   req, resp, dropped, panicked, inVars, srvVars, moreVars>>

\* handleClose after the loop: the progress map, OnClose, and the unlock
handleClose_finish(k) ==
    /\ Running
    /\ cls[k].pc = "wake"
    /\ responseHandlers = {}
    /\ progressHandlers' = {}
    /\ onCloseCalls' = onCloseCalls + 1
    /\ mu' = 0
    /\ cls' = [cls EXCEPT ![k].pc = "done"]
    /\ UNCHANGED <<lifeVars, messages, requestMessageID, responseHandlers, chans,
                   onErrorCalls, req, resp, dropped, panicked, inVars, srvVars, moreVars>>

\* ------------------------------------------------- handler registration
\* SetRequestHandler, for a method of the user
SetRequestHandler(method) ==
    /\ Running
    /\ mu = 0
    /\ method \notin requestHandlers
    /\ requestHandlers' = requestHandlers \cup {method}
    /\ UNCHANGED <<lifeVars, messages, mu, outMaps, cbVars, req, resp, cls, dropped,
                   panicked, notificationHandlers, FallbackRequestHandler,
                   FallbackNotificationHandler, requestCancellers, inb, ntf, progressCalls,
                   srvVars, moreVars>>

\* SetNotificationHandler, for a method of the user
SetNotificationHandler(method) ==
    /\ Running
    /\ mu = 0
    /\ method \notin notificationHandlers
    /\ notificationHandlers' = notificationHandlers \cup {method}
    /\ UNCHANGED <<lifeVars, messages, mu, outMaps, cbVars, req, resp, cls, dropped,
                   panicked, requestHandlers, FallbackRequestHandler,
                   FallbackNotificationHandler, requestCancellers, inb, ntf, progressCalls,
                   srvVars, moreVars>>

\* the user sets the exported field FallbackRequestHandler
SetFallbackRequestHandler ==
    /\ Running
    /\ ~FallbackRequestHandler
    /\ FallbackRequestHandler' = TRUE
    /\ UNCHANGED <<lifeVars, messages, mu, outMaps, cbVars, req, resp, cls, dropped,
                   panicked, requestHandlers, notificationHandlers,
                   FallbackNotificationHandler, requestCancellers, inb, ntf, progressCalls,
                   srvVars, moreVars>>

\* the user sets the exported field FallbackNotificationHandler
SetFallbackNotificationHandler ==
    /\ Running
    /\ ~FallbackNotificationHandler
    /\ FallbackNotificationHandler' = TRUE
    /\ UNCHANGED <<lifeVars, messages, mu, outMaps, cbVars, req, resp, cls, dropped,
                   panicked, requestHandlers, notificationHandlers,
                   FallbackRequestHandler, requestCancellers, inb, ntf, progressCalls, srvVars,
                   moreVars>>

\* --------------------------------------------------------- handleRequest
\* handler := p.requestHandlers[request.Method], or the closure that stands
\* in for a missing one
LookupRequestHandler(method) == IF method \in requestHandlers THEN method ELSE "closure"

\* handleRequest, first critical section (RLock)
handleRequest_lookup(g, id, method) ==
    /\ Running
    /\ started
    /\ MessageRoute("request") = "handleRequest"
    /\ Fresh(inb, g)
    /\ mu = 0
    /\ inb' = [inb EXCEPT ![g] = [IdleIn EXCEPT !.pc = "lookup", !.id = id,
                                                !.h = LookupRequestHandler(method)]]
    /\ UNCHANGED <<lifeVars, messages, mu, outMaps, cbVars, req, resp, cls, dropped,
                   panicked, regVars, requestCancellers, ntf, progressCalls, srvVars,
                   moreVars>>

\* handleRequest, second critical section (Lock): the cancel func is stored,
\* then the goroutine is started
handleRequest_register(g) ==
    /\ Running
    /\ inb[g].pc = "lookup"
    /\ mu = 0
    /\ requestCancellers' = [requestCancellers EXCEPT ![inb[g].id] = g]
    /\ inb' = [inb EXCEPT ![g].pc = "registered"]
    /\ UNCHANGED <<lifeVars, messages, mu, outMaps, cbVars, req, resp, cls, dropped,
                   panicked, regVars, ntf, progressCalls, srvVars, moreVars>>

\* what runs when the closure of handleRequest is called
ClosureHandler == IF FallbackRequestHandler THEN "fallback" ELSE "notfound"

\* the handler called on the goroutine that delivers the messages, which is
\* busy while a handler runs
handler_invoke_inline(g) ==
    /\ \A o \in InSlots : inb[o].pc # "running"
    /\ Running
    /\ inb[g].pc = "registered"
    /\ inb' = [inb EXCEPT ![g].pc = "running",
                          ![g].h = IF inb[g].h = "closure" THEN ClosureHandler ELSE inb[g].h]
    /\ UNCHANGED <<lifeVars, messages, mu, outMaps, cbVars, req, resp, cls, dropped,
                   panicked, regVars, requestCancellers, ntf, progressCalls, srvVars,
                   moreVars>>

\* the goroutine of handleRequest calls handler(request, extra)
handler_invoke(g) ==
    /\ Running
    /\ inb[g].pc = "registered"
    /\ inb' = [inb EXCEPT ![g].pc = "running",
                          ![g].h = IF inb[g].h = "closure" THEN ClosureHandler ELSE inb[g].h]
    /\ UNCHANGED <<lifeVars, messages, mu, outMaps, cbVars, req, resp, cls, dropped,
                   panicked, regVars, requestCancellers, ntf, progressCalls, srvVars,
                   moreVars>>

\* the error a handler returns ("" for none); ok is the user handler's choice
HandlerError(h, ok) ==
    CASE h = "ping" -> ""
      [] h = "notfound" -> "method not found"
      [] OTHER -> IF ok THEN "" ELSE "handler error"

\* an error response with the JSON-RPC internal-error code
sendErrorResponse_internal(msgs, requestID, err) ==
    Send(msgs, Msg("error", requestID, "", 0 - 32603, err, NoId))

\* sendErrorResponse
sendErrorResponse(msgs, requestID, err) ==
    Send(msgs, Msg("error", requestID, "", 0 - 32000, err, NoId))

\* the response map handleRequest sends for a result
sendResult(msgs, requestID) ==
    Send(msgs, Msg("response", requestID, "", 0, "", NoId))

\* the handler returns and the goroutine sends the result or the error
handler_return(g, ok) ==
    /\ Running
    /\ inb[g].pc = "running"
    /\ LET err == HandlerError(inb[g].h, ok) IN
       /\ messages' = IF err # "" THEN sendErrorResponse(messages, inb[g].id, err)
                      ELSE sendResult(messages, inb[g].id)
       /\ inb' = [inb EXCEPT ![g].pc = "defer", ![g].h = "",
                             ![g].out = IF err # "" THEN err ELSE "ok"]
    /\ UNCHANGED <<lifeVars, mu, outMaps, cbVars, req, resp, cls, dropped, panicked,
                   regVars, requestCancellers, ntf, progressCalls, srvVars, moreVars>>

\* the deferred func of the goroutine: delete(p.requestCancellers, request.Id); cancel()
handleRequest_defer(g) ==
    /\ Running
    /\ inb[g].pc = "defer"
    /\ mu = 0
    /\ requestCancellers' = [requestCancellers EXCEPT ![inb[g].id] = 0]
    /\ inb' = [inb EXCEPT ![g].pc = "done", ![g].ctx = "cancelled"]
    /\ UNCHANGED <<lifeVars, messages, mu, outMaps, cbVars, req, resp, cls, dropped,
                   panicked, regVars, ntf, progressCalls, srvVars, moreVars>>

\* ---------------------------------------------------- handleNotification
\* handler := p.notificationHandlers[method], else the fallback; "nil": none
LookupNotificationHandler(method) ==
    IF method \in notificationHandlers THEN method
    ELSE IF FallbackNotificationHandler THEN "fallback" ELSE "nil"

\* handleNotification: the lookup under RLock; with a handler, the goroutine
\* is started
handleNotification(n, method, arg, val) ==
    /\ Running
    /\ started
    /\ MessageRoute("notification") = "handleNotification"
    /\ Fresh(ntf, n)
    /\ mu = 0
    /\ LET h == LookupNotificationHandler(method) IN
       ntf' = [ntf EXCEPT ![n] = IF h = "nil" THEN DoneNtf
                                  ELSE [pc |-> "spawned", h |-> h, arg |-> arg,
                                        val |-> val]]
    /\ UNCHANGED <<lifeVars, messages, mu, outMaps, cbVars, req, resp, cls, dropped,
                   panicked, regVars, requestCancellers, inb, progressCalls, srvVars,
                   moreVars>>

\* cancel := p.requestCancellers[params.RequestId]: the slot it cancels, 0 for nil
LookupCanceller(requestId) == requestCancellers[requestId]

\* the goroutine of handleNotification runs handleCancelledNotification
handleCancelledNotification(n) ==
    /\ Running
    /\ ntf[n].pc = "spawned"
    /\ ntf[n].h = "notifications/cancelled"
    /\ IF ntf[n].arg = BadArg
       THEN /\ onErrorCalls' = onErrorCalls \cup {"notification handler error"}
            /\ UNCHANGED inb
       ELSE /\ mu = 0
            /\ LET g == LookupCanceller(ntf[n].arg) IN
               inb' = IF g # 0 THEN [inb EXCEPT ![g].ctx = "cancelled"] ELSE inb
            /\ UNCHANGED onErrorCalls
    /\ ntf' = [ntf EXCEPT ![n] = DoneNtf]
    /\ UNCHANGED <<lifeVars, messages, mu, outMaps, onCloseCalls, req, resp, cls,
                   dropped, panicked, regVars, requestCancellers, progressCalls, srvVars,
                   moreVars>>

\* a lookup that ignores the token and yields the oldest registered callback
LookupProgressHandler_oldest(token) ==
    IF progressHandlers = {} THEN NoId
    ELSE CHOOSE j \in progressHandlers : \A i \in progressHandlers : j <= i

\* handler := p.progressHandlers[params.ProgressToken]; NoId is nil
LookupProgressHandler(token) == IF token \in progressHandlers THEN token ELSE NoId

\* the goroutine of handleNotification runs handleProgressNotification, up to
\* the end of its critical section (RLock)
handleProgressNotification(n) ==
    /\ Running
    /\ ntf[n].pc = "spawned"
    /\ ntf[n].h = "$/progress"
    /\ IF ntf[n].arg = BadArg
       THEN /\ onErrorCalls' = onErrorCalls \cup {"notification handler error"}
            /\ ntf' = [ntf EXCEPT ![n] = DoneNtf]
       ELSE /\ mu = 0
            /\ LET handler == LookupProgressHandler(ntf[n].arg) IN
               ntf' = [ntf EXCEPT ![n] = IF handler = NoId THEN DoneNtf
                                          ELSE [ntf[n] EXCEPT !.pc = "callback", !.arg = handler]]
            /\ UNCHANGED onErrorCalls
    /\ UNCHANGED <<lifeVars, messages, mu, outMaps, onCloseCalls, req, resp, cls,
                   dropped, panicked, regVars, requestCancellers, inb, progressCalls, srvVars,
                   moreVars>>

\* Progress{Progress: params.Progress, Total: params.Total}
ProgressOf(val) == <<val[1], val[2]>>

\* handleProgressNotification calls the callback it found
progressCallback_run(n) ==
    /\ Running
    /\ ntf[n].pc = "callback"
    /\ progressCalls' = progressCalls \cup {<<ntf[n].arg>> \o ProgressOf(ntf[n].val)}
    /\ ntf' = [ntf EXCEPT ![n] = DoneNtf]
    /\ UNCHANGED <<lifeVars, messages, mu, outMaps, cbVars, req, resp, cls, dropped,
                   panicked, regVars, requestCancellers, inb, srvVars, moreVars>>

\* a handler goroutine that answers the peer with the error of the handler
notificationHandler_run_respond(n, ok) ==
    /\ Running
    /\ ntf[n].pc = "spawned"
    /\ ntf[n].h \notin {"notifications/cancelled", "$/progress"}
    /\ messages' = IF ok THEN messages
                   ELSE sendErrorResponse(messages, NoId, "notification handler error")
    /\ ntf' = [ntf EXCEPT ![n] = DoneNtf]
    /\ UNCHANGED <<lifeVars, mu, outMaps, cbVars, req, resp, cls,
                   dropped, panicked, regVars, requestCancellers, inb, progressCalls, srvVars,
                   moreVars>>

\* the goroutine of handleNotification runs a handler of the user (or the
\* fallback); ok: it returns no error
notificationHandler_run(n, ok) ==
    /\ Running
    /\ ntf[n].pc = "spawned"
    /\ ntf[n].h \notin {"notifications/cancelled", "$/progress"}
    /\ onErrorCalls' = IF ok THEN onErrorCalls
                       ELSE onErrorCalls \cup {"notification handler error"}
    /\ ntf' = [ntf EXCEPT ![n] = DoneNtf]
    /\ UNCHANGED <<lifeVars, messages, mu, outMaps, onCloseCalls, req, resp, cls,
                   dropped, panicked, regVars, requestCancellers, inb, progressCalls, srvVars,
                   moreVars>>

\* ----------------------------------------------------------------- specs
NextOut ==
    \/ Connect
    \/ \E c \in ReqCalls, opt \in OptKinds : Request_register(c, opt)
    \/ \E c \in ReqCalls : Request_send(c)
    \/ \E c \in ReqCalls : Request_recv(c)
    \/ \E c \in ReqCalls, why \in {"context canceled", "request timeout"} : Request_cancel(c, why)
    \/ \E c \in ReqCalls : Request_defer(c)
    \/ \E r \in RespSlots, id \in OutIds, kind \in RespKinds : handleResponse_lookup(r, id, kind)
    \/ \E r \in RespSlots : handleResponse_send(r)
    \/ \E k \in CloseCalls : Close(k)
    \/ \E k \in CloseCalls, id \in OutIds : handleClose_wake(k, id)
    \/ \E k \in CloseCalls : handleClose_unblock(k)
    \/ \E k \in CloseCalls : handleClose_finish(k)

SpecOut == Init /\ [][NextOut]_vars

\* the Protocol as Connect wires it: what the transport delivers goes through
\* the message handler
NextWire ==
    \/ Connect
    \/ \E c \in ReqCalls, opt \in OptKinds : Request_register(c, opt)
    \/ \E c \in ReqCalls : Request_send(c)
    \/ \E c \in ReqCalls : Request_recv(c)
    \/ \E c \in ReqCalls, why \in {"context canceled", "request timeout"} : Request_cancel(c, why)
    \/ \E c \in ReqCalls : Request_defer(c)
    \/ \E id \in OutIds : OnMessage_response(id)
    \/ \E k \in CloseCalls : Close(k)
    \/ \E k \in CloseCalls, id \in OutIds : handleClose_wake(k, id)
    \/ \E k \in CloseCalls : handleClose_finish(k)

SpecWire == Init /\ [][NextWire]_vars

\* ---------------------------------------------------------------- Client
\* the guard every Client method starts with: the error it returns, "" to go on
ClientGate_open(op) == ""

ClientGate(op) ==
    IF op = "Initialize"
    THEN IF initialized THEN "client already initialized" ELSE ""
    ELSE IF ~initialized THEN "client not initialized" ELSE ""

\* the Client methods that marshal their arguments before the request
MarshalsArguments == {"CallTool", "GetPrompt"}

\* what a Client method makes of the response Request returned
Decodings == {"ok", "invalid response type", "failed to unmarshal response"}

\* a Client method up to its call of the Protocol: the guard, then
\* json.Marshal(arguments) in CallTool and GetPrompt; marshals is whether the
\* arguments can be marshalled
Client_call(op, marshals) ==
    /\ Running
    /\ cli.pc = "idle"
    /\ \E c \in ReqCalls : Fresh(req, c)
    /\ LET c == CHOOSE c \in ReqCalls : Fresh(req, c) IN
       cli' = IF ClientGate(op) # ""
              THEN [cli EXCEPT !.op = op, !.res = ClientGate(op)]
              ELSE IF op \in MarshalsArguments /\ ~marshals
              THEN [cli EXCEPT !.op = op, !.res = "failed to marshal arguments"]
              ELSE [cli EXCEPT !.pc = IF op = "Initialize" THEN "connect" ELSE "request",
                               !.op = op, !.slot = c, !.res = "", !.used[c] = op]
    /\ UNCHANGED <<lifeVars, messages, mu, outMaps, cbVars, req, resp, cls, dropped, panicked,
                   inVars, srvVars, initialized, ioVars>>

\* Initialize: c.protocol.Connect(c.transport), which starts the transport
Client_connect ==
    /\ Running
    /\ cli.pc = "connect"
    /\ transport' = "mock"
    /\ started' = TRUE
    /\ cli' = [cli EXCEPT !.pc = "request"]
    /\ UNCHANGED <<closed, messages, mu, outMaps, cbVars, req, resp, cls, dropped, panicked,
                   inVars, srvVars, initialized, ioVars>>

\* c.protocol.Request of the Client method in progress
Client_request(c) ==
    /\ cli.pc = "request"
    /\ cli.slot = c
    /\ Request_register(c, "plain")

\* a Client method after Request has returned: the error wrapped, or the
\* response decoded; Initialize sets c.initialized only when all of it succeeded
Client_return(decoding) ==
    /\ Running
    /\ cli.pc = "request"
    /\ req[cli.slot].pc = "done"
    /\ LET res == IF req[cli.slot].res # "result" THEN "request failed"
                  ELSE IF cli.op = "Ping" THEN "ok"
                  ELSE decoding IN
       /\ cli' = [cli EXCEPT !.pc = "idle", !.res = res]
       /\ initialized' = (initialized \/ (cli.op = "Initialize" /\ res = "ok"))
    /\ UNCHANGED <<lifeVars, messages, mu, outMaps, cbVars, req, resp, cls, dropped, panicked,
                   inVars, srvVars, ioVars>>

\* the Client over its Protocol; a response reaches the waiting Request through
\* handleResponse, or is dropped by the message handler Connect installs
NextCli ==
    \/ \E op \in ClientOps, marshals \in BOOLEAN : Client_call(op, marshals)
    \/ Client_connect
    \/ \E c \in ReqCalls : Client_request(c)
    \/ \E decoding \in Decodings : Client_return(decoding)
    \/ \E c \in ReqCalls : Request_send(c)
    \/ \E c \in ReqCalls : Request_recv(c)
    \/ \E c \in ReqCalls, why \in {"context canceled", "request timeout"} : Request_cancel(c, why)
    \/ \E c \in ReqCalls : Request_defer(c)
    \/ \E r \in RespSlots, id \in OutIds, kind \in RespKinds : handleResponse_lookup(r, id, kind)
    \/ \E r \in RespSlots : handleResponse_send(r)
    \/ \E id \in OutIds : OnMessage_response(id)

SpecCli == Init /\ [][NextCli]_vars

\* --------------------------------------------------- deserializeMessage
\* json.Unmarshal into a JSONRPCRequest. The type is declared outside the files
\* at hand: its decoder either checks the required members id, jsonrpc and
\* method, as the decoder of JSONRPCError does, or is the plain struct decoder,
\* which accepts any object
UnmarshalRequest(d) == strict => (d.id /\ d.jsonrpc /\ d.method # "absent")

\* json.Unmarshal into a JSONRPCError: JSONRPCError.UnmarshalJSON requires
\* error, id and jsonrpc (the error objects here have code and message)
UnmarshalError(d) == d.error # "absent" /\ d.id /\ d.jsonrpc

\* json.Unmarshal into a JSONRPCNotification, as for JSONRPCRequest
UnmarshalNotification(d) == strict => (d.jsonrpc /\ d.method # "absent")

\* json.Unmarshal into a JSONRPCResponse, as for JSONRPCRequest
UnmarshalResponse(d) == strict => (d.id /\ d.jsonrpc /\ d.result)

\* deserializeMessage: the type of the value it returns, "failed" for an error
deserializeMessage(d) ==
    IF ~d.valid THEN "failed"
    ELSE IF UnmarshalRequest(d) /\ d.method = "name" THEN "request"
    ELSE IF UnmarshalError(d) /\ d.error = "code" THEN "error"
    ELSE IF UnmarshalNotification(d) /\ d.method = "name" THEN "notification"
    ELSE "response"

\* SSETransport.HandleMessage: the type of the value it hands to OnMessage,
\* "failed" when it calls OnError and returns the error
HandleMessage(d) ==
    IF ~d.valid THEN "failed"
    ELSE IF d.method # "absent"
    THEN IF UnmarshalRequest(d) THEN "request" ELSE "failed"
    ELSE IF UnmarshalResponse(d) THEN "response" ELSE "failed"

\* json.Unmarshal of the bytes of a frame into a map: of the texts made of
\* "a", "b", "{" and "}" only "{}" is a JSON value, the object without members
LeftBrace == 123
RightBrace == 125
ParseLine(line) ==
    IF line = <<LeftBrace, RightBrace>> THEN [NoDoc EXCEPT !.valid = TRUE] ELSE NoDoc

\* ------------------------------------------------------------ ReadBuffer
MaxStream == 5
MaxChunk == 3
\* '\n'
NewLine == 10
\* the bytes of a stream: the newline, and "a" and "b" for every other byte
Bytes == {NewLine} \cup Alphabet
Streams == UNION {[1..n -> Bytes] : n \in 0..MaxStream}

\* the index of the last newline, 0 when there is none
FirstNewline_last(buf) ==
    IF \E i \in 1..Len(buf) : buf[i] = NewLine
    THEN CHOOSE i \in 1..Len(buf) : buf[i] = NewLine /\ \A j \in (i + 1)..Len(buf) : buf[j] # NewLine
    ELSE 0

\* for i := 0; i < len(rb.buffer); i++ { if rb.buffer[i] == '\n' {: the index of
\* the first newline, counted from 1, 0 when there is none
FirstNewline(buf) ==
    IF \E i \in 1..Len(buf) : buf[i] = NewLine
    THEN CHOOSE i \in 1..Len(buf) : buf[i] = NewLine /\ \A j \in 1..(i - 1) : buf[j] # NewLine
    ELSE 0

\* ReadBuffer.Append with the next bytes of the stream as the chunk
ReadBuffer_Append(n) ==
    /\ fed + n <= Len(wire)
    /\ LET chunk == SubSeq(wire, fed + 1, fed + n) IN
       buffer' = IF buffer = <<>> THEN <<chunk>> ELSE <<buffer[1] \o chunk>>
    /\ fed' = fed + n
    /\ UNCHANGED <<wire, lines, lastRead, returned, posts, msgVars, sseVars>>
    /\ UNCHANGED <<lifeVars, messages, mu, outMaps, cbVars, req, resp, cls, dropped, panicked,
                   inVars, srvVars, cliVars, mutVars>>

\* ReadMessage decoding the line before it takes it out of the buffer, and
\* leaving a line that does not decode where it is
ReadBuffer_ReadMessage_keep ==
    /\ IF buffer = <<>> \/ FirstNewline(buffer[1]) = 0
       THEN /\ lastRead' = <<>>
            /\ UNCHANGED <<buffer, lines, returned>>
       ELSE LET i == FirstNewline(buffer[1])
                line == SubSeq(buffer[1], 1, i - 1) IN
            /\ buffer' = IF deserializeMessage(ParseLine(line)) = "failed" THEN buffer
                         ELSE <<SubSeq(buffer[1], i + 1, Len(buffer[1]))>>
            /\ lines' = Append(lines, line)
            /\ lastRead' = <<line>>
            /\ returned' = Append(returned, deserializeMessage(ParseLine(line)))
    /\ UNCHANGED <<wire, fed, posts, msgVars, sseVars>>
    /\ UNCHANGED <<lifeVars, messages, mu, outMaps, cbVars, req, resp, cls, dropped, panicked,
                   inVars, srvVars, cliVars, mutVars>>

\* ReadBuffer.ReadMessage; the line goes to deserializeMessage
ReadBuffer_ReadMessage ==
    /\ IF buffer = <<>> \/ FirstNewline(buffer[1]) = 0
       THEN /\ lastRead' = <<>>
            /\ UNCHANGED <<buffer, lines, returned>>
       ELSE LET i == FirstNewline(buffer[1])
                line == SubSeq(buffer[1], 1, i - 1) IN
            /\ buffer' = <<SubSeq(buffer[1], i + 1, Len(buffer[1]))>>
            /\ lines' = Append(lines, line)
            /\ lastRead' = <<line>>
            /\ returned' = Append(returned, deserializeMessage(ParseLine(line)))
    /\ UNCHANGED <<wire, fed, posts, msgVars, sseVars>>
    /\ UNCHANGED <<lifeVars, messages, mu, outMaps, cbVars, req, resp, cls, dropped, panicked,
                   inVars, srvVars, cliVars, mutVars>>

NextBuf ==
    \/ \E n \in 0..MaxChunk : ReadBuffer_Append(n)
    \/ ReadBuffer_ReadMessage

InitBuf ==
    /\ InitProtocol /\ ServerWith(<<>>, {}) /\ NewClient
    /\ \E stream \in Streams : NewReadBuffer(stream)
    /\ NoMessage
    /\ NewSSETransport

SpecBuf == InitBuf /\ [][NextBuf]_vars

\* ------------------------------------- specification: one message decoded
\* a line arrives and ReadMessage hands it to deserializeMessage
deserializeMessage_call ==
    /\ parsed = "none"
    /\ parsed' = deserializeMessage(doc)
    /\ UNCHANGED <<doc, strict, handled, bufVars, sseVars>>
    /\ UNCHANGED <<lifeVars, messages, mu, outMaps, cbVars, req, resp, cls, dropped, panicked,
                   inVars, srvVars, cliVars, mutVars>>

\* the same text arrives in a POST and goes to SSETransport.HandleMessage
HandleMessage_call ==
    /\ handled = "none"
    /\ handled' = HandleMessage(doc)
    /\ UNCHANGED <<doc, strict, parsed, bufVars, sseVars>>
    /\ UNCHANGED <<lifeVars, messages, mu, outMaps, cbVars, req, resp, cls, dropped, panicked,
                   inVars, srvVars, cliVars, mutVars>>

NextMsg ==
    \/ deserializeMessage_call
    \/ HandleMessage_call

InitMsg ==
    /\ InitProtocol /\ ServerWith(<<>>, {}) /\ NewClient
    /\ NewReadBuffer(<<>>)
    /\ doc \in Docs
    /\ strict \in BOOLEAN
    /\ parsed = "none"
    /\ handled = "none"
    /\ NewSSETransport

SpecMsg == InitMsg /\ [][NextMsg]_vars

\* ----------------------------------- specification: frames, good and bad
MaxPosts == 2
\* the bodies posted: "{}" and "{"
Bodies == {<<LeftBrace, RightBrace>>, <<LeftBrace>>}
\* the bytes of a stream of frames: the newline and the two braces
FrameStreams == UNION {[1..n -> {NewLine, LeftBrace, RightBrace}] : n \in 0..MaxStream}

\* SSETransport.HandleMessage given the body of a POST: OnError and the error
\* returned when it is "failed", OnMessage with the message otherwise
HandleMessage_post(body) ==
    /\ Len(posts) < MaxPosts
    /\ posts' = Append(posts, [body |-> body, out |-> HandleMessage(ParseLine(body))])
    /\ UNCHANGED <<wire, fed, buffer, lines, lastRead, returned, msgVars, sseVars>>
    /\ UNCHANGED <<lifeVars, messages, mu, outMaps, cbVars, req, resp, cls, dropped, panicked,
                   inVars, srvVars, cliVars, mutVars>>

InitFrames ==
    /\ InitProtocol /\ ServerWith(<<>>, {}) /\ NewClient
    /\ \E stream \in FrameStreams : NewReadBuffer(stream)
    /\ doc = NoDoc
    /\ strict \in BOOLEAN
    /\ parsed = "none"
    /\ handled = "none"
    /\ NewSSETransport

NextFrames ==
    \/ \E n \in 1..MaxChunk : ReadBuffer_Append(n)
    \/ ReadBuffer_ReadMessage
    \/ \E body \in Bodies : HandleMessage_post(body)

SpecFrames == InitFrames /\ [][NextFrames]_vars

\* ---------------------------------------------------------- SSETransport
\* a lock that anyone can take at any time
Lock_free(k) == TRUE

\* t.mu.Lock()
Lock(k) == tmu = 0

\* a check that never finds the transport started
AlreadyStarted_never == FALSE

\* Start: if t.isConnected
AlreadyStarted == isConnected

\* a check that never finds the transport closed
NotConnected_never == FALSE

\* Send: if !t.isConnected
NotConnected == ~isConnected

\* "event: %s\ndata: %s\n\n": the writer receives the event line, then the data
\* line; by is the caller writing
EventLine(k, event) == [by |-> k, event |-> event, line |-> "event"]
DataLine(k, event) == [by |-> k, event |-> event, line |-> "data"]

\* Start up to the event line of the endpoint event; ok is whether the writer
\* accepts the write
Start_begin(k, ok) ==
    /\ sse[k].pc = "idle"
    /\ Lock(k)
    /\ IF AlreadyStarted
       THEN /\ sse' = [sse EXCEPT ![k] = [pc |-> "idle", op |-> "Start",
                                         res |-> "SSE transport already started"]]
            /\ UNCHANGED <<tmu, written>>
       ELSE IF ~ok
       THEN /\ sse' = [sse EXCEPT ![k] = [pc |-> "idle", op |-> "Start", res |-> "write error"]]
            /\ UNCHANGED <<tmu, written>>
       ELSE /\ Len(written) < 2 * MaxEvents
            /\ tmu' = k
            /\ written' = Append(written, EventLine(k, "endpoint"))
            /\ sse' = [sse EXCEPT ![k] = [pc |-> "writing", op |-> "Start", res |-> ""]]
    /\ UNCHANGED <<isConnected, closeCallbacks, bufVars, msgVars>>
    /\ UNCHANGED <<lifeVars, messages, mu, outMaps, cbVars, req, resp, cls, dropped, panicked,
                   inVars, srvVars, cliVars, mutVars>>

\* Start: the rest of writeEvent, t.isConnected = true, and the deferred Unlock
Start_finish(k) ==
    /\ sse[k].pc = "writing"
    /\ sse[k].op = "Start"
    /\ written' = Append(written, DataLine(k, "endpoint"))
    /\ isConnected' = TRUE
    /\ tmu' = IF tmu = k THEN 0 ELSE tmu
    /\ sse' = [sse EXCEPT ![k] = [pc |-> "idle", op |-> "Start", res |-> "nil"]]
    /\ UNCHANGED <<closeCallbacks, bufVars, msgVars>>
    /\ UNCHANGED <<lifeVars, messages, mu, outMaps, cbVars, req, resp, cls, dropped, panicked,
                   inVars, srvVars, cliVars, mutVars>>

\* Send up to the event line of the message event; marshals is whether
\* json.Marshal(msg) succeeds
Send_begin(k, marshals) ==
    /\ sse[k].pc = "idle"
    /\ Lock(k)
    /\ IF NotConnected
       THEN /\ sse' = [sse EXCEPT ![k] = [pc |-> "idle", op |-> "Send", res |-> "not connected"]]
            /\ UNCHANGED <<tmu, written>>
       ELSE IF ~marshals
       THEN /\ sse' = [sse EXCEPT ![k] = [pc |-> "idle", op |-> "Send", res |-> "marshal error"]]
            /\ UNCHANGED <<tmu, written>>
       ELSE /\ Len(written) < 2 * MaxEvents
            /\ tmu' = k
            /\ written' = Append(written, EventLine(k, "message"))
            /\ sse' = [sse EXCEPT ![k] = [pc |-> "writing", op |-> "Send", res |-> ""]]
    /\ UNCHANGED <<isConnected, closeCallbacks, bufVars, msgVars>>
    /\ UNCHANGED <<lifeVars, messages, mu, outMaps, cbVars, req, resp, cls, dropped, panicked,
                   inVars, srvVars, cliVars, mutVars>>

\* Send: the rest of writeEvent and the deferred Unlock
Send_finish(k) ==
    /\ sse[k].pc = "writing"
    /\ sse[k].op = "Send"
    /\ written' = Append(written, DataLine(k, "message"))
    /\ tmu' = IF tmu = k THEN 0 ELSE tmu
    /\ sse' = [sse EXCEPT ![k] = [pc |-> "idle", op |-> "Send", res |-> "nil"]]
    /\ UNCHANGED <<isConnected, closeCallbacks, bufVars, msgVars>>
    /\ UNCHANGED <<lifeVars, messages, mu, outMaps, cbVars, req, resp, cls, dropped, panicked,
                   inVars, srvVars, cliVars, mutVars>>

\* SSETransport.Close, with the OnClose callback set
SSE_Close(k) ==
    /\ sse[k].pc = "idle"
    /\ Lock(k)
    /\ IF ~isConnected
       THEN UNCHANGED <<isConnected, closeCallbacks>>
       ELSE /\ isConnected' = FALSE
            /\ closeCallbacks' = closeCallbacks + 1
    /\ sse' = [sse EXCEPT ![k] = [pc |-> "idle", op |-> "Close", res |-> "nil"]]
    /\ UNCHANGED <<tmu, written, bufVars, msgVars>>
    /\ UNCHANGED <<lifeVars, messages, mu, outMaps, cbVars, req, resp, cls, dropped, panicked,
                   inVars, srvVars, cliVars, mutVars>>

NextSse ==
    \/ \E k \in SseCallers, ok \in BOOLEAN : Start_begin(k, ok)
    \/ \E k \in SseCallers : Start_finish(k)
    \/ \E k \in SseCallers, marshals \in BOOLEAN : Send_begin(k, marshals)
    \/ \E k \in SseCallers : Send_finish(k)
    \/ \E k \in SseCallers : SSE_Close(k)

SpecSse == Init /\ [][NextSse]_vars

\* the inbound side: requests and notifications the transport delivers
Methods == {"ping", "tools/call"}
NotifMethods == {"notifications/cancelled", "notifications/initialized"}

NextIn ==
    \/ Connect
    \/ SetRequestHandler("tools/call")
    \/ SetNotificationHandler("notifications/initialized")
    \/ SetFallbackRequestHandler
    \/ SetFallbackNotificationHandler
    \/ \E g \in InSlots, id \in InIds, method \in Methods : handleRequest_lookup(g, id, method)
    \/ \E g \in InSlots : handleRequest_register(g)
    \/ \E g \in InSlots : handler_invoke(g)
    \/ \E g \in InSlots, ok \in BOOLEAN : handler_return(g, ok)
    \/ \E g \in InSlots : handleRequest_defer(g)
    \/ \E n \in NotifSlots, id \in InIds \cup {BadArg} :
          handleNotification(n, "notifications/cancelled", id, NoVal)
    \/ \E n \in NotifSlots : handleNotification(n, "notifications/initialized", NoId, NoVal)
    \/ \E n \in NotifSlots : handleCancelledNotification(n)
    \/ \E n \in NotifSlots, ok \in BOOLEAN : notificationHandler_run(n, ok)
    \/ \E k \in CloseCalls : Close(k)
    \/ \E k \in CloseCalls : handleClose_finish(k)

SpecIn == Init /\ [][NextIn]_vars

\* the inbound side while the handler of the first request never returns
StuckSlot == CHOOSE g \in InSlots : \A o \in InSlots : g <= o
LaterSlots == InSlots \ {StuckSlot}

NextStuck ==
    \/ Connect
    \/ SetRequestHandler("tools/call")
    \/ SetNotificationHandler("notifications/initialized")
    \/ \E g \in InSlots, id \in InIds, method \in Methods : handleRequest_lookup(g, id, method)
    \/ \E g \in InSlots : handleRequest_register(g)
    \/ \E g \in InSlots : handler_invoke(g)
    \/ \E g \in LaterSlots, ok \in BOOLEAN : handler_return(g, ok)
    \/ \E g \in InSlots : handleRequest_defer(g)
    \/ \E n \in NotifSlots : handleNotification(n, "notifications/initialized", NoId, NoVal)
    \/ \E n \in NotifSlots, ok \in BOOLEAN : notificationHandler_run(n, ok)

\* every goroutine that can take a step gets to take it; the handler of the
\* first request is the one that blocks
FairStuck ==
    /\ \A g \in InSlots : WF_vars(handleRequest_register(g))
    /\ \A g \in InSlots : WF_vars(handler_invoke(g))
    /\ \A g \in LaterSlots : WF_vars(\E ok \in BOOLEAN : handler_return(g, ok))
    /\ \A g \in InSlots : WF_vars(handleRequest_defer(g))
    /\ \A n \in NotifSlots : WF_vars(\E ok \in BOOLEAN : notificationHandler_run(n, ok))

SpecStuck == Init /\ [][NextStuck]_vars /\ FairStuck

\* progress: Request calls with and without OnProgress, and the $/progress
\* notifications the transport delivers
ProgressVals == {<<50, 100>>, <<100, 100>>}

NextProg ==
    \/ Connect
    \/ \E c \in ReqCalls, opt \in OptKinds : Request_register(c, opt)
    \/ \E c \in ReqCalls : Request_send(c)
    \/ \E c \in ReqCalls : Request_recv(c)
    \/ \E c \in ReqCalls, why \in {"context canceled", "request timeout"} : Request_cancel(c, why)
    \/ \E c \in ReqCalls : Request_defer(c)
    \/ \E n \in NotifSlots, token \in OutIds \cup {BadArg}, val \in ProgressVals :
          handleNotification(n, "$/progress", token, val)
    \/ \E n \in NotifSlots : handleProgressNotification(n)
    \/ \E n \in NotifSlots : progressCallback_run(n)
    \/ \E k \in CloseCalls : Close(k)
    \/ \E k \in CloseCalls, id \in OutIds : handleClose_wake(k, id)
    \/ \E k \in CloseCalls : handleClose_finish(k)

SpecProg == Init /\ [][NextProg]_vars

\* ================================================================ server
\* ---------------------------------------------------------------- base64
\* a base64 text is a sequence of sextets 0..63 and of Pad for '='
Pad == 63 + 1
DecodeError == <<0 - 1>>

\* base64.StdEncoding.EncodeToString
RECURSIVE B64Encode(_)
B64Encode(b) ==
    IF Len(b) = 0 THEN <<>>
    ELSE IF Len(b) = 1 THEN <<b[1] \div 4, (b[1] % 4) * 16, Pad, Pad>>
    ELSE IF Len(b) = 2
         THEN <<b[1] \div 4, (b[1] % 4) * 16 + b[2] \div 16, (b[2] % 16) * 4, Pad>>
    ELSE <<b[1] \div 4, (b[1] % 4) * 16 + b[2] \div 16,
           (b[2] % 16) * 4 + b[3] \div 64, b[3] % 64>>
         \o B64Encode(SubSeq(b, 4, Len(b)))

\* base64.StdEncoding.DecodeString: quads of sextets, padding in the last
\* quad only; DecodeError for a corrupt input
RECURSIVE B64Decode(_)
B64Decode(t) ==
    IF Len(t) = 0 THEN <<>>
    ELSE IF Len(t) < 4 THEN DecodeError
    ELSE LET q == SubSeq(t, 1, 4)
             rest == SubSeq(t, 5, Len(t))
         IN  IF q[1] = Pad \/ q[2] = Pad THEN DecodeError
             ELSE IF q[3] = Pad
                  THEN IF q[4] = Pad /\ Len(rest) = 0
                       THEN <<q[1] * 4 + q[2] \div 16>>
                       ELSE DecodeError
             ELSE IF q[4] = Pad
                  THEN IF Len(rest) = 0
                       THEN <<q[1] * 4 + q[2] \div 16, (q[2] % 16) * 16 + q[3] \div 4>>
                       ELSE DecodeError
             ELSE LET d == B64Decode(rest)
                  IN  IF d = DecodeError THEN DecodeError
                      ELSE <<q[1] * 4 + q[2] \div 16, (q[2] % 16) * 16 + q[3] \div 4,
                             (q[3] % 4) * 64 + q[4]>> \o d

\* ------------------------------------------------------------ list pages
\* Range over a registry: the keys that have an entry
Keys(registry) == {k \in Names : registry[k] # 0}

\* what a request handler returns: a result, an error, or a panic in its goroutine
ListResult(items, next) == [kind |-> "result", text |-> "", items |-> items, next |-> next]
HandlerFailed(text) == [kind |-> "error", text |-> text, items |-> <<>>, next |-> <<>>]
HandlerPanic == [kind |-> "panic", text |-> "index out of range", items |-> <<>>, next |-> <<>>]

\* the loop "for i := 0; i < len(ordered); i++ { if ordered[i].Name > cString {...; break} }":
\* whether an entry was found, and its position (from 0)
FirstAfter(ordered, cString) ==
    LET later == {i \in 1..Len(ordered) : LexLess(cString, ordered[i])}
    IN  IF later = {} THEN [found |-> FALSE, at |-> 0]
        ELSE [found |-> TRUE, at |-> (CHOOSE i \in later : \A j \in later : i <= j) - 1]

\* endPosition, the entries from startPosition to it, and the NextCursor closure;
\* the three list handlers end with the same code
PageFrom(ordered, startPosition, limit) ==
    LET endPosition == IF limit # <<>> /\ Len(ordered) > startPosition + limit[1]
                       THEN startPosition + limit[1]
                       ELSE Len(ordered)
        toReturn == [i \in 1..(endPosition - startPosition) |-> ordered[startPosition + i]]
    IN  IF limit # <<>> /\ Len(toReturn) >= limit[1]
        THEN IF Len(toReturn) = 0 THEN HandlerPanic
             ELSE ListResult(toReturn, <<B64Encode(toReturn[Len(toReturn)])>>)
        ELSE ListResult(toReturn, <<>>)

\* handleListTools without the "if !found" branch
handleListTools_restart(params) ==
    IF ~params.valid THEN HandlerFailed("failed to unmarshal arguments")
    ELSE LET orderedTools == SortByName(Keys(tools)) IN
         IF params.cursor = <<>> THEN PageFrom(orderedTools, 0, paginationLimit)
         ELSE LET c == B64Decode(params.cursor[1]) IN
              IF c = DecodeError THEN HandlerFailed("failed to decode cursor")
              ELSE PageFrom(orderedTools, FirstAfter(orderedTools, c).at, paginationLimit)

\* handleListTools
handleListTools(params) ==
    IF ~params.valid THEN HandlerFailed("failed to unmarshal arguments")
    ELSE LET orderedTools == SortByName(Keys(tools)) IN
         IF params.cursor = <<>> THEN PageFrom(orderedTools, 0, paginationLimit)
         ELSE LET c == B64Decode(params.cursor[1]) IN
              IF c = DecodeError THEN HandlerFailed("failed to decode cursor")
              ELSE LET f == FirstAfter(orderedTools, c)
                       startPosition == IF f.found THEN f.at ELSE Len(orderedTools)
                   IN  PageFrom(orderedTools, startPosition, paginationLimit)

\* handleListPrompts: startPosition stays 0 when no name is after the cursor
handleListPrompts(params) ==
    IF ~params.valid THEN HandlerFailed("failed to unmarshal arguments")
    ELSE LET orderedPrompts == SortByName(Keys(prompts)) IN
         IF params.cursor = <<>> THEN PageFrom(orderedPrompts, 0, paginationLimit)
         ELSE LET c == B64Decode(params.cursor[1]) IN
              IF c = DecodeError THEN HandlerFailed("failed to decode cursor")
              ELSE PageFrom(orderedPrompts, FirstAfter(orderedPrompts, c).at, paginationLimit)

\* handleListResources: as handleListPrompts, ordered by Uri
handleListResources(params) ==
    IF ~params.valid THEN HandlerFailed("failed to unmarshal arguments")
    ELSE LET orderedResources == SortByName(Keys(resources)) IN
         IF params.cursor = <<>> THEN PageFrom(orderedResources, 0, paginationLimit)
         ELSE LET c == B64Decode(params.cursor[1]) IN
              IF c = DecodeError THEN HandlerFailed("failed to decode cursor")
              ELSE PageFrom(orderedResources, FirstAfter(orderedResources, c).at,
                            paginationLimit)

ListMethods == {"tools/list", "prompts/list", "resources/list"}
ListHandler(method, params) ==
    CASE method = "tools/list" -> handleListTools(params)
      [] method = "prompts/list" -> handleListPrompts(params)
      [] method = "resources/list" -> handleListResources(params)

\* ------------------------------------------------------------------ Serve
ServerMethods ==
    {"ping", "initialize", "tools/list", "tools/call", "prompts/list", "prompts/get",
     "resources/list", "resources/read"}

\* Serve: the isRunning check, the SetRequestHandler calls and pr.Connect
Serve_connect ==
    /\ Running
    /\ srv.pc = "idle"
    /\ IF isRunning
       THEN /\ srv' = [pc |-> "idle", res |-> "server is already running"]
            /\ UNCHANGED <<lifeVars, requestHandlers>>
       ELSE /\ requestHandlers' = requestHandlers \cup ServerMethods
            /\ transport' = "mock"
            /\ started' = TRUE
            /\ srv' = [pc |-> "connected", res |-> ""]
            /\ UNCHANGED closed
    /\ UNCHANGED <<messages, mu, outMaps, cbVars, req, resp, cls, dropped, panicked,
                   notificationHandlers, FallbackRequestHandler, FallbackNotificationHandler,
                   requestCancellers, inb, ntf, progressCalls,
                   isRunning, paginationLimit, registries, reg, reply, walk, moreVars>>

\* Serve: s.isRunning = true; return nil
Serve_finish ==
    /\ Running
    /\ srv.pc = "connected"
    /\ isRunning' = TRUE
    /\ srv' = [pc |-> "idle", res |-> "ok"]
    /\ UNCHANGED <<lifeVars, messages, mu, outMaps, cbVars, req, resp, cls, dropped, panicked,
                   inVars, paginationLimit, registries, reg, reply, walk, moreVars>>

\* ------------------------------------------------- answering a request
\* the handler goroutine of handleRequest, given what the handler returned:
\* sendErrorResponse for an error, the response for a result; a panic sends nothing
Answer(msgs, id, r) ==
    IF r.kind = "error" THEN sendErrorResponse(msgs, id, r.text)
    ELSE IF r.kind = "result" THEN sendResult(msgs, id)
    ELSE msgs

\* the message the peer receives for r
Wire(id, r) ==
    LET sent == BagToSet(Answer(EmptyBag, id, r))
    IN  IF sent = {} THEN Msg("none", id, "", 0, "", NoId) ELSE CHOOSE m \in sent : TRUE

\* a request with a registered handler is answered with r
Respond(method, r) ==
    /\ Running
    /\ transport # "nil"
    /\ method \in requestHandlers
    /\ panicked' = (r.kind = "panic")

\* ----------------------------------------------------- the list requests
\* the params of a list request: valid is whether they unmarshal; cursor is
\* <<>> when there is none, <<text>> for a base64 text
ListReply(method, params, id, r) ==
    [NoReply EXCEPT !.method = method, !.cursor = params.cursor, !.kind = r.kind,
                    !.code = Wire(id, r).code, !.text = Wire(id, r).text,
                    !.items = r.items, !.next = r.next]

\* the peer adds a page to its walk
WalkStep(w, r) ==
    IF r.kind = "result"
    THEN [w EXCEPT !.st = IF r.next = <<>> THEN "done" ELSE "more",
                   !.got = w.got \o r.items, !.pages = w.pages + 1, !.next = r.next]
    ELSE [w EXCEPT !.st = "failed"]

\* a list request without cursor: the first page of a walk
list_first(method, id) ==
    LET params == [valid |-> TRUE, cursor |-> <<>>]
        r == ListHandler(method, params)
    IN  /\ Respond(method, r)
        /\ reply' = ListReply(method, params, id, r)
        /\ walk' = WalkStep([IdleWalk EXCEPT !.method = method], r)
        /\ UNCHANGED <<lifeVars, messages, mu, outMaps, cbVars, req, resp, cls, dropped,
                       inVars, isRunning, paginationLimit, registries, srv, reg, moreVars>>

\* a list request with the nextCursor of the page before
list_next(id) ==
    /\ walk.st = "more"
    /\ walk.pages < MaxPages
    /\ LET params == [valid |-> TRUE, cursor |-> walk.next]
           r == ListHandler(walk.method, params)
       IN  /\ Respond(walk.method, r)
           /\ reply' = ListReply(walk.method, params, id, r)
           /\ walk' = WalkStep(walk, r)
    /\ UNCHANGED <<lifeVars, messages, mu, outMaps, cbVars, req, resp, cls, dropped, inVars,
                   isRunning, paginationLimit, registries, srv, reg, moreVars>>

\* a list request with any params, from a peer that is not following a walk
list_at(method, id, params) ==
    LET r == ListHandler(method, params)
    IN  /\ Respond(method, r)
        /\ reply' = ListReply(method, params, id, r)
        /\ walk' = IdleWalk
        /\ UNCHANGED <<lifeVars, messages, mu, outMaps, cbVars, req, resp, cls, dropped,
                       inVars, isRunning, paginationLimit, registries, srv, reg, moreVars>>

\* ------------------------------------------------ specification: the lists
Limits == {<<>>} \cup {<<l>> : l \in 0..MaxLimit}
\* cursors: the base64 of every name and of a three-byte key, and a corrupt text
CursorKeys == Names \cup {<<97, 98, 97>>}
Cursors == {<<B64Encode(k)>> : k \in CursorKeys} \cup {<<<<26>>>>}
ListParams == {[valid |-> FALSE, cursor |-> <<>>]} \cup {[valid |-> TRUE, cursor |-> c] : c \in Cursors}

InitList ==
    /\ InitProtocol
    /\ \E limit \in Limits, S \in SUBSET Names : ServerWith(limit, S)
    /\ NewClient
    /\ NewIO

NextList ==
    \/ Serve_connect
    \/ Serve_finish
    \/ \E m \in ListMethods : list_first(m, 0)
    \/ list_next(0)
    \/ \E m \in ListMethods, params \in ListParams : list_at(m, 0, params)

SpecList == InitList /\ [][NextList]_vars

\* ------------------------------------------------ Register and Deregister
Kinds == {"tools", "prompts", "resources"}
RegistryOfKind(kind) ==
    CASE kind = "tools" -> tools
      [] kind = "prompts" -> prompts
      [] kind = "resources" -> resources

\* Store as it is, Delete without effect
SetEntry_keep(kind, k, entry) ==
    /\ tools' = IF kind = "tools" /\ entry # 0 THEN [tools EXCEPT ![k] = entry] ELSE tools
    /\ prompts' = IF kind = "prompts" /\ entry # 0 THEN [prompts EXCEPT ![k] = entry] ELSE prompts
    /\ resources' = IF kind = "resources" /\ entry # 0 THEN [resources EXCEPT ![k] = entry]
                    ELSE resources

\* Store / Delete on the registry of the kind: entry is the handler, 0 to delete
SetEntry(kind, k, entry) ==
    /\ tools' = IF kind = "tools" THEN [tools EXCEPT ![k] = entry] ELSE tools
    /\ prompts' = IF kind = "prompts" THEN [prompts EXCEPT ![k] = entry] ELSE prompts
    /\ resources' = IF kind = "resources" THEN [resources EXCEPT ![k] = entry] ELSE resources

\* RegisterTool, RegisterPrompt, RegisterResource up to the Store: a handler
\* that does not validate is an error for tools and prompts, a panic for
\* resources, and nothing is stored
Register(kind, k, h, valid) ==
    /\ Running
    /\ reg.pc = "idle"
    /\ BagCardinality(messages) < MaxNotes
    /\ IF valid
       THEN /\ SetEntry(kind, k, h)
            /\ reg' = [pc |-> "notify", kind |-> kind, key |-> k, h |-> h]
            /\ UNCHANGED panicked
       ELSE /\ reg' = IdleReg
            /\ panicked' = (kind = "resources")
            /\ UNCHANGED registries
    /\ UNCHANGED <<lifeVars, messages, mu, outMaps, cbVars, req, resp, cls, dropped, inVars,
                   isRunning, paginationLimit, srv, reply, walk, moreVars>>

\* DeregisterTool, DeregisterPrompt, DeregisterResource up to the Delete
Deregister(kind, k) ==
    /\ Running
    /\ reg.pc = "idle"
    /\ BagCardinality(messages) < MaxNotes
    /\ SetEntry(kind, k, 0)
    /\ reg' = [pc |-> "notify", kind |-> kind, key |-> k, h |-> 0]
    /\ UNCHANGED <<lifeVars, messages, mu, outMaps, cbVars, req, resp, cls, dropped, panicked,
                   inVars, isRunning, paginationLimit, srv, reply, walk, moreVars>>

ListChangedMethod(kind) ==
    CASE kind = "tools" -> "notifications/tools/list_changed"
      [] kind = "prompts" -> "notifications/prompts/list_changed"
      [] kind = "resources" -> "notifications/resources/list_changed"

\* Protocol.Notification with nil params, once connected
Notification_twice(msgs, method) ==
    Send(Send(msgs, Msg("notification", NoId, method, 0, "", NoId)),
         Msg("notification", NoId, method, 0, "", NoId))
Notification(msgs, method) == Send(msgs, Msg("notification", NoId, method, 0, "", NoId))

\* sendToolListChangedNotification and its prompts and resources variants,
\* with which Register and Deregister return
sendListChangedNotification ==
    /\ Running
    /\ reg.pc = "notify"
    /\ messages' = IF isRunning /\ transport # "nil"
                   THEN Notification(messages, ListChangedMethod(reg.kind))
                   ELSE messages
    /\ reg' = IdleReg
    /\ UNCHANGED <<lifeVars, mu, outMaps, cbVars, req, resp, cls, dropped, panicked, inVars,
                   isRunning, paginationLimit, registries, srv, reply, walk, moreVars>>

\* --------------------------------------------------------------- the calls
\* what a call handler returns: ran is the user handler that was invoked (0: none)
CallFailed(text) ==
    [kind |-> "error", text |-> text, ran |-> 0, isError |-> FALSE, content |-> ""]
CallPanic(ran) ==
    [kind |-> "panic", text |-> "nil pointer dereference", ran |-> ran, isError |-> FALSE,
     content |-> ""]
CallResult(ran, isError, content, text) ==
    [kind |-> "result", text |-> text, ran |-> ran, isError |-> isError, content |-> content]

\* what a user handler returns: a response, an error, or neither (nil, nil)
Outcomes == {"response", "error", "nil"}
\* whether the arguments decode into the argument type of the handler
ArgKinds == {"ok", "bad"}

\* the wrapped tool handler: a toolResponseSent, and the user handler it invoked
createWrappedToolHandler(h, args, outcome) ==
    IF args = "bad"
    THEN [Response |-> "nil", Error |-> "failed to unmarshal arguments", ran |-> 0]
    ELSE IF outcome = "error"
    THEN [Response |-> "nil", Error |-> "handler error", ran |-> h]
    ELSE [Response |-> outcome, Error |-> "", ran |-> h]

\* toolResponseSent.MarshalJSON: {content, isError}; c.Response.Content with a
\* nil Response is a nil pointer dereference
MarshalJSON(c) ==
    IF c.Error # "" THEN CallResult(c.ran, TRUE, "text", c.Error)
    ELSE IF c.Response = "nil" THEN CallPanic(c.ran)
    ELSE CallResult(c.ran, FALSE, "response", "")

\* the params of a call: valid is whether they unmarshal, name is params.Name
\* (params.Uri for resources/read)
\* handleToolCalls falling back on some registered tool for an unknown name
handleToolCalls_any(params, outcome) ==
    IF ~params.valid THEN CallFailed("failed to unmarshal arguments")
    ELSE LET found == IF tools[params.name] # 0 THEN {params.name} ELSE Keys(tools) IN
         IF found = {} THEN CallFailed("unknown tool: tools/call")
         ELSE MarshalJSON(createWrappedToolHandler(tools[CHOOSE k \in found : TRUE],
                                                   params.args, outcome))

\* handleToolCalls
handleToolCalls(params, outcome) ==
    IF ~params.valid THEN CallFailed("failed to unmarshal arguments")
    ELSE IF tools[params.name] = 0 THEN CallFailed("unknown tool: tools/call")
    ELSE MarshalJSON(createWrappedToolHandler(tools[params.name], params.args, outcome))

\* handlePromptCalls; promptResponseSent.MarshalJSON puts an error in a message
handlePromptCalls(params, outcome) ==
    IF ~params.valid THEN CallFailed("failed to unmarshal arguments")
    ELSE IF prompts[params.name] = 0 THEN CallFailed("unknown prompt: prompts/get")
    ELSE IF params.args = "bad"
    THEN CallResult(0, FALSE, "text", "failed to unmarshal arguments")
    ELSE IF outcome = "error" THEN CallResult(prompts[params.name], FALSE, "text", "handler error")
    ELSE CallResult(prompts[params.name], FALSE, IF outcome = "nil" THEN "null" ELSE "response", "")

\* handleResourceCalls; the handler takes no arguments
handleResourceCalls(params, outcome) ==
    IF ~params.valid THEN CallFailed("failed to unmarshal arguments")
    ELSE IF resources[params.name] = 0 THEN CallFailed("unknown prompt: resources/read")
    ELSE IF outcome = "error"
    THEN CallResult(resources[params.name], FALSE, "text", "handler error")
    ELSE CallResult(resources[params.name], FALSE, IF outcome = "nil" THEN "null" ELSE "response", "")

CallMethods == {"tools/call", "prompts/get", "resources/read"}
CallHandler(method, params, outcome) ==
    CASE method = "tools/call" -> handleToolCalls(params, outcome)
      [] method = "prompts/get" -> handlePromptCalls(params, outcome)
      [] method = "resources/read" -> handleResourceCalls(params, outcome)

CallReply(method, params, outcome, id, r) ==
    [NoReply EXCEPT !.method = method, !.name = params.name, !.args = params.args,
                    !.outcome = IF r.ran # 0 THEN outcome ELSE "", !.kind = r.kind,
                    !.code = Wire(id, r).code, !.text = IF r.kind = "error" THEN Wire(id, r).text ELSE r.text,
                    !.ran = r.ran, !.isError = r.isError, !.content = r.content]

\* tools/call, prompts/get or resources/read, answered
call(method, id, params, outcome) ==
    LET r == CallHandler(method, params, outcome)
    IN  /\ Respond(method, r)
        /\ reply' = CallReply(method, params, outcome, id, r)
        /\ UNCHANGED <<lifeVars, messages, mu, outMaps, cbVars, req, resp, cls, dropped,
                       inVars, isRunning, paginationLimit, registries, srv, reg, walk,
                       moreVars>>

\* ------------------------------------------------------------- initialize
\* generateCapabilities: listChanged of tools, prompts and resources
generateCapabilities ==
    LET t == FALSE
    IN  [tools |-> <<t>>, prompts |-> <<t>>, resources |-> <<t>>]

\* handleInitialize
handleInitialize ==
    [kind |-> "result", text |-> "", version |-> "2024-11-05", caps |-> generateCapabilities]

\* initialize, answered
initialize(id) ==
    LET r == handleInitialize
    IN  /\ Respond("initialize", r)
        /\ reply' = [NoReply EXCEPT !.method = "initialize", !.kind = r.kind,
                                    !.version = r.version, !.caps = r.caps]
        /\ UNCHANGED <<lifeVars, messages, mu, outMaps, cbVars, req, resp, cls, dropped,
                       inVars, isRunning, paginationLimit, registries, srv, reg, walk,
                       moreVars>>

\* ---------------------------------------------- specification: the server
\* the name registered and deregistered, "a", and the names called, "a" and "b"
RegNames == {<<97>>}
SrvNames == {k \in Names : Len(k) = 1}
CallParams ==
    {[valid |-> FALSE, name |-> <<>>, args |-> "ok"]}
        \cup {[valid |-> TRUE, name |-> k, args |-> a] : k \in SrvNames, a \in ArgKinds}

NextSrv ==
    \/ Serve_connect
    \/ Serve_finish
    \/ \E kind \in Kinds, k \in RegNames, h \in Handlers, valid \in BOOLEAN :
           Register(kind, k, h, valid)
    \/ \E kind \in Kinds, k \in RegNames : Deregister(kind, k)
    \/ sendListChangedNotification
    \/ \E m \in CallMethods, params \in CallParams, outcome \in Outcomes :
           call(m, 0, params, outcome)
    \/ initialize(0)
    \/ \E m \in ListMethods : list_at(m, 0, [valid |-> TRUE, cursor |-> <<>>])

SpecSrv == Init /\ [][NextSrv]_vars

\* ------------------------------- concurrent Register and Deregister calls
\* RegisterTool, RegisterPrompt, RegisterResource (h a handler that validates)
\* and DeregisterTool, DeregisterPrompt, DeregisterResource (h = 0) of
\* goroutine w, up to the Store or Delete on the sync.Map
Mutate(w, kind, k, h) ==
    /\ Running
    /\ mut[w].pc # "notify"
    /\ Len(history) < MaxMutations
    /\ SetEntry(kind, k, h)
    /\ history' = Append(history, [kind |-> kind, key |-> k, h |-> h])
    /\ mut' = [mut EXCEPT ![w] = [pc |-> "notify", kind |-> kind, key |-> k, h |-> h,
                                  at |-> Len(history) + 1, res |-> "",
                                  live |-> (transport # "nil" /\ started)]]
    /\ UNCHANGED <<lifeVars, messages, mu, outMaps, cbVars, req, resp, cls, dropped, panicked,
                   inVars, isRunning, paginationLimit, srv, reg, reply, walk, cliVars,
                   bufVars, msgVars, sseVars, announced>>

\* what the rest of the call returns, and whether the transport took the
\* notification: sendOk is whether Send of the Transport returns nil
Notified(w, sendOk) ==
    IF ~isRunning THEN [res |-> "nil", sent |-> FALSE]
    ELSE IF transport = "nil" THEN [res |-> "not connected", sent |-> FALSE]
    ELSE IF sendOk THEN [res |-> "nil", sent |-> TRUE]
    ELSE [res |-> "send failed", sent |-> FALSE]

\* Announce undoing a Store whose notification could not be sent
Announce_rollback(w, sendOk) ==
    /\ Running
    /\ mut[w].pc = "notify"
    /\ LET n == Notified(w, sendOk)
       IN  /\ messages' = IF n.sent THEN Notification(messages, ListChangedMethod(mut[w].kind))
                          ELSE messages
           /\ announced' = IF n.sent THEN announced \cup {mut[w].at} ELSE announced
           /\ mut' = [mut EXCEPT ![w].pc = "returned", ![w].res = n.res]
           /\ IF n.res = "nil" THEN UNCHANGED registries
              ELSE SetEntry(mut[w].kind, mut[w].key, 0)
    /\ UNCHANGED <<lifeVars, mu, outMaps, cbVars, req, resp, cls, dropped, panicked, inVars,
                   isRunning, paginationLimit, srv, reg, reply, walk, cliVars, bufVars,
                   msgVars, sseVars, history>>
\* sendToolListChangedNotification and its prompts and resources variants of
\* goroutine w, with whose result Register and Deregister return
Announce(w, sendOk) ==
    /\ Running
    /\ mut[w].pc = "notify"
    /\ LET n == Notified(w, sendOk)
       IN  /\ messages' = IF n.sent THEN Notification(messages, ListChangedMethod(mut[w].kind))
                          ELSE messages
           /\ announced' = IF n.sent THEN announced \cup {mut[w].at} ELSE announced
           /\ mut' = [mut EXCEPT ![w].pc = "returned", ![w].res = n.res]
    /\ UNCHANGED <<lifeVars, mu, outMaps, cbVars, req, resp, cls, dropped, panicked, inVars,
                   srvVars, cliVars, bufVars, msgVars, sseVars, history>>

\* -------------------------- specification: the server, mutated concurrently
NextConc ==
    \/ Serve_connect
    \/ Serve_finish
    \/ \E w \in Mutators, kind \in Kinds, k \in RegNames, h \in 0..1 : Mutate(w, kind, k, h)
    \/ \E w \in Mutators, sendOk \in BOOLEAN : Announce(w, sendOk)
    \/ \E m \in CallMethods, k \in RegNames :
           call(m, 0, [valid |-> TRUE, name |-> k, args |-> "ok"], "response")
    \/ \E m \in ListMethods : list_at(m, 0, [valid |-> TRUE, cursor |-> <<>>])

SpecConc == Init /\ [][NextConc]_vars

\* ================================================================ claims
\* the notifications/cancelled message for request id with reason
CancelNotification(id, reason) ==
    Msg("notification", NoId, "notifications/cancelled", 0, reason, id)

\* C1: a response with id i is delivered only to the Request call that was
\* allocated id i: handleResponse sends only to the channel registered under
\* the response's id, every envelope waiting in the channel of id i carries i
\* (or is the envelope of Close), and what a Request call took from its
\* channel carries the call's own id. A response whose id has no registered
\* channel reaches no channel at all.
C1_ResponseCorrelation ==
    /\ \A r \in RespSlots :
          resp[r].pc = "send" => /\ resp[r].ch = resp[r].id
                                 /\ resp[r].id < requestMessageID
    /\ \A i \in OutIds : \A n \in 1..Len(chans[i].buf) :
          /\ chans[i].buf[n].rid \in {i, NoId}
          /\ i < requestMessageID
    /\ \A i \in OutIds : Len(chans[i].buf) <= 1
    /\ \A c \in ReqCalls : req[c].rid # NoId => req[c].rid = req[c].id

\* two calls were pending, the later one got its response and returned it,
\* the earlier one is still waiting
C1_Witness ==
    \E c, d \in ReqCalls :
        /\ req[c].pc = "done" /\ req[c].res = "result" /\ req[c].rid = req[c].id
        /\ req[d].pc = "select" /\ req[d].id < req[c].id
        /\ Len(chans[req[d].id].buf) = 0

\* C2: a response the transport delivers for a Request call blocked in its
\* select is put into that call's channel (or handleResponse is on its way to
\* put it there), so that the call is woken with it instead of timing out.
C2_ResponseRouted ==
    \A c \in ReqCalls :
        (req[c].pc = "select" /\ req[c].id \in dropped)
            => \/ Len(chans[req[c].id].buf) > 0
               \/ \E r \in RespSlots : resp[r].pc = "send" /\ resp[r].ch = req[c].id

\* the Request call c is going to receive from its channel: it is in its
\* select, or on its way there
WillReceive(c) ==
    \/ req[c].pc = "select"
    \/ req[c].pc = "build" /\ req[c].opt # "progressBadParams"

C4_CancelNotificationSent ==
    \A c \in ReqCalls :
        (req[c].pc \in {"defer", "done"} /\ req[c].res \in {"context canceled", "request timeout"})
            => CopiesIn(CancelNotification(req[c].id, req[c].res), messages) = 1

\* one call timed out and returned while another one had its context cancelled
C4_Witness ==
    \E c, d \in ReqCalls :
        /\ req[c].pc = "done" /\ req[c].res = "request timeout"
        /\ req[d].pc \in {"defer", "done"} /\ req[d].res = "context canceled"

\* a Close has run handleClose to its end and none is in progress
CloseCompleted ==
    /\ closed
    /\ \E k \in CloseCalls : cls[k].pc = "done"
    /\ \A k \in CloseCalls : cls[k].pc \in {"idle", "done"}

\* C5: a Request call made after Close has completed is rejected with
\* 'not connected': it sends nothing and registers no waiter.
C5_RequestAfterCloseRejected ==
    [][\A c \in ReqCalls :
          (CloseCompleted /\ req[c].pc = "idle" /\ req'[c].pc # "idle")
              => /\ req'[c].pc = "done"
                 /\ req'[c].res = "not connected"
                 /\ messages' = messages
                 /\ responseHandlers' = responseHandlers]_vars

\* C6: of several Close calls only the first runs the close handling: OnClose
\* is called once, and no later call enters handleClose.
C6_CloseIdempotent ==
    /\ onCloseCalls <= 1
    /\ \A k \in CloseCalls : cls[k].pc \in {"wake", "blocked"} => onCloseCalls = 0

\* the goroutine of handleRequest calls a request handler (a registered one or
\* the fallback) for slot g in this step
InvokesRequestHandler(g) ==
    inb[g].pc = "registered" /\ inb'[g].pc = "running" /\ inb'[g].h # "notfound"

\* the goroutine of handleNotification runs its notification handler in this step
RunsNotificationHandler(n) == ntf[n].pc = "spawned" /\ ntf'[n].pc = "done"

\* C7: once a Close has begun, no request handler, notification handler or
\* fallback handler is invoked any more, whether it was looked up before the
\* Close or its message arrived after it.
C7_NoHandlerAfterClose ==
    [][/\ \A g \in InSlots : InvokesRequestHandler(g) => ~closed
       /\ \A n \in NotifSlots : RunsNotificationHandler(n) => ~closed]_vars

\* the texts of the errors a request handler run can end with
ErrTexts == {"method not found", "handler error"}

\* the responses and error responses sent with id i
RepliesTo(i) ==
    LET S == {m \in BagToSet(messages) : m.kind \in {"response", "error"} /\ m.id = i}
    IN  [m \in S |-> CopiesIn(m, messages)]

\* the inbound requests with id i whose handler returned out
Returned(i, out) == {g \in InSlots : inb[g].id = i /\ inb[g].out = out}

\* C8: every inbound request whose handler has returned has produced exactly
\* one message carrying its id, a result response if the handler returned no
\* error and otherwise an error response with code -32000 and the handler's
\* error text; a request whose handler has not returned has produced none.
C8_OneReplyPerRequest ==
    /\ \A g \in InSlots : inb[g].out # "" <=> inb[g].pc \in {"defer", "done"}
    /\ \A i \in InIds :
          /\ CopiesIn(Msg("response", i, "", 0, "", NoId), messages)
                = Cardinality(Returned(i, "ok"))
          /\ \A text \in ErrTexts :
                CopiesIn(Msg("error", i, "", 0 - 32000, text, NoId), messages)
                   = Cardinality(Returned(i, text))
          /\ BagCardinality(RepliesTo(i))
                = Cardinality({g \in InSlots : inb[g].id = i /\ inb[g].out # ""})

\* one handler has returned an error and its error response is out, another
\* request's handler is still running
C8_Witness ==
    \E g, f \in InSlots :
        /\ inb[g].pc = "done" /\ inb[g].out = "handler error"
        /\ inb[f].pc = "running" /\ inb[f].id # inb[g].id
        /\ BagCardinality(RepliesTo(inb[f].id)) = 0

\* C9: a request whose method has no registered handler is answered by the
\* fallback request handler if one is set, and otherwise by an error response
\* with the method-not-found code -32601.
C9_MethodNotFound ==
    [][\A g \in InSlots :
          /\ (inb[g].pc = "registered" /\ inb[g].h = "closure" /\ inb'[g].pc = "running")
                => inb'[g].h = IF FallbackRequestHandler THEN "fallback" ELSE "notfound"
          /\ (inb[g].pc = "running" /\ inb[g].h = "notfound" /\ inb'[g].pc = "defer")
                => messages' = Send(messages,
                                    Msg("error", inb[g].id, "", 0 - 32601, "method not found", NoId))
      ]_vars

\* C10: when the handler of notifications/cancelled runs for request id i,
\* the context of every handler executing for i becomes cancelled, the context
\* of no request with another id changes, and nothing is sent by that step
\* (the response for i waits for the handler to return).
C10_CancelReachesHandler ==
    [][\A n \in NotifSlots :
          (/\ RunsNotificationHandler(n)
           /\ ntf[n].h = "notifications/cancelled"
           /\ ntf[n].arg \in InIds)
             => /\ \A g \in InSlots :
                     (inb[g].pc = "running" /\ inb[g].id = ntf[n].arg)
                        => inb'[g].ctx = "cancelled"
                /\ \A g \in InSlots :
                     inb[g].id # ntf[n].arg => inb'[g].ctx = inb[g].ctx
                /\ messages' = messages]_vars

\* the Request calls that were given an outbound id
Allocated == {c \in ReqCalls : req[c].id # NoId}

\* C11: the outbound ids given out by Request are 0, 1, 2, ... in steps of
\* one: the ids held by the calls so far (pending, completed, timed out or
\* cancelled) are exactly 0 .. requestMessageID - 1, and no two calls hold the
\* same id.
C11_OutboundIdsUnique ==
    /\ {req[c].id : c \in Allocated} = 0..(requestMessageID - 1)
    /\ Cardinality(Allocated) = requestMessageID
    /\ \A c, d \in Allocated : c # d => req[c].id # req[d].id
    /\ \A c \in ReqCalls : req[c].pc \in {"build", "select", "defer"} => req[c].id # NoId

\* the call with id 0 has timed out and returned; a later call holds id 1
C11_Witness ==
    \E c, d \in ReqCalls :
        /\ req[c].pc = "done" /\ req[c].id = 0 /\ req[c].res = "request timeout"
        /\ req[d].pc = "select" /\ req[d].id = 1
        /\ responseHandlers = {1}

\* a Request call that set OnProgress holds id t, has not returned, and has
\* not been failed by handleClose
PendingWithCallback(t) ==
    \E c \in ReqCalls :
        /\ req[c].id = t
        /\ req[c].opt # "plain"
        /\ req[c].pc \in {"build", "select", "defer"}
        /\ ~chans[t].closed

\* handleProgressNotification decides in this step what to do with the
\* notification of slot n
DecidesProgress(n) ==
    ntf[n].pc = "spawned" /\ ntf[n].h = "$/progress" /\ ntf'[n].pc # "spawned"

\* C12: a request sent with OnProgress set carries its own outbound id as
\* params._meta.progressToken (and one sent without carries none); a $/progress
\* notification leads to a callback iff its token is the id of a pending
\* Request call that registered one, the callback is that call's and gets the
\* notification's progress and total, and no callback runs otherwise.
C12_ProgressToken ==
    /\ [](\A c \in ReqCalls :
             req[c].pc = "select" =>
                CopiesIn(Msg("request", req[c].id, "test_method", 0, "",
                             IF req[c].opt = "progress" THEN req[c].id ELSE NoId),
                         messages) = 1)
    /\ [](\A m \in BagToSet(messages) :
             (m.kind = "request" /\ m.ref # NoId) => m.ref = m.id)
    /\ [][/\ \A n \in NotifSlots :
               DecidesProgress(n) =>
                  IF ntf[n].arg \in OutIds /\ PendingWithCallback(ntf[n].arg)
                  THEN ntf'[n] = [ntf[n] EXCEPT !.pc = "callback"]
                  ELSE ntf'[n].pc = "done"
          /\ \A n \in NotifSlots :
               (ntf[n].pc = "callback" /\ ntf'[n].pc # "callback") =>
                  progressCalls' = progressCalls
                      \cup {<<ntf[n].arg, ntf[n].val[1], ntf[n].val[2]>>}
          /\ progressCalls' # progressCalls =>
               \E n \in NotifSlots : ntf[n].pc = "callback" /\ ntf'[n].pc = "done"]_vars

\* the callback of request 1 ran with progress 50 of 100 while request 0,
\* sent without OnProgress, is pending
C12_Witness ==
    /\ <<1, 50, 100>> \in progressCalls
    /\ \E c \in ReqCalls : req[c].id = 0 /\ req[c].opt = "plain" /\ req[c].pc = "select"

\* the names in q are in strictly ascending lexicographic order
Ascending(q) == \A i, j \in 1..Len(q) : i < j => LexLess(q[i], q[j])
\* q holds exactly the keys of the registry, each once
ExactlyKeys(q, registry) ==
    /\ {q[i] : i \in 1..Len(q)} = Keys(registry)
    /\ Len(q) = Cardinality(Keys(registry))
LimitAtLeastOne == paginationLimit # <<>> /\ paginationLimit[1] >= 1

\* C13: with a pagination limit L >= 1 and an unchanging registry of N tools,
\* a peer that starts tools/list without cursor and follows nextCursor gets no
\* error, is done after at most N / L + 1 pages, and the pages put end to end
\* are exactly the registered tool names in ascending lexicographic order.
C13_ToolsWalkComplete ==
    (walk.method = "tools/list" /\ LimitAtLeastOne) =>
        /\ walk.st # "failed"
        /\ Ascending(walk.got)
        /\ walk.pages <= Cardinality(Keys(tools)) \div paginationLimit[1] + 1
        /\ walk.st = "done" => ExactlyKeys(walk.got, tools)

\* a walk of three pages or more that ended with an empty page after a full one
C13_Witness ==
    /\ walk.method = "tools/list" /\ LimitAtLeastOne
    /\ walk.st = "done"
    /\ walk.pages >= 3
    /\ Len(walk.got) = 2 * (walk.pages - 1)
    /\ reply.items = <<>>
    /\ ExactlyKeys(walk.got, tools)
    /\ walk.got[2] = <<97, 97>>

\* the registry a list method lists
RegistryOf(method) ==
    CASE method = "tools/list" -> tools
      [] method = "prompts/list" -> prompts
      [] method = "resources/list" -> resources
\* the keys of the registry that are after K
KeysAfter(method, K) == {k \in Keys(RegistryOf(method)) : LexLess(K, k)}

\* C14: a prompts/list or resources/list page asked with a cursor that decodes
\* to K holds no key <= K and begins with the first key > K; when no key is
\* after K the page is empty and has no nextCursor, so a peer following
\* nextCursor is done after at most N / L + 1 pages.
C14_PageAfterCursor ==
    /\ (reply.method \in {"prompts/list", "resources/list"} /\ reply.kind = "result"
            /\ reply.cursor # <<>>) =>
          LET K == B64Decode(reply.cursor[1])
              later == KeysAfter(reply.method, K)
          IN  /\ \A i \in 1..Len(reply.items) : LexLess(K, reply.items[i])
              /\ later = {} => (reply.items = <<>> /\ reply.next = <<>>)
              /\ (later # {} /\ reply.items # <<>>) =>
                     \A k \in later : k = reply.items[1] \/ LexLess(reply.items[1], k)
    /\ (walk.method \in {"prompts/list", "resources/list"} /\ LimitAtLeastOne) =>
          walk.pages <= Cardinality(Keys(RegistryOf(walk.method))) \div paginationLimit[1] + 1

\* the shape of a list result under the configured limit
PageShape(r) ==
    IF paginationLimit # <<>>
    THEN /\ Len(r.items) <= paginationLimit[1]
         /\ r.next # <<>> <=> Len(r.items) = paginationLimit[1]
         /\ r.next # <<>> => (r.items # <<>> /\ r.next = <<B64Encode(r.items[Len(r.items)])>>)
    ELSE /\ r.next = <<>>
         /\ r.cursor = <<>> => (ExactlyKeys(r.items, RegistryOf(r.method)) /\ Ascending(r.items))

\* C15: a list request whose params and cursor decode is answered with a
\* result; with a limit L configured the result has at most L entries and has a
\* nextCursor iff it has L entries, the base64 of the last key returned; with
\* no limit it has every entry and no nextCursor.
C15_PageSize ==
    (reply.method \in ListMethods /\ reply.kind # "error") =>
        (reply.kind = "result" /\ PageShape(reply))

\* the same for the answers that are results
C15_ResultShape ==
    (reply.method \in ListMethods /\ reply.kind = "result") => PageShape(reply)

\* the list_changed notification of a kind; params are null (no text, no id)
ListChanged(kind) == Msg("notification", NoId, ListChangedMethod(kind), 0, "", NoId)
\* the step with which a Register or Deregister call returns after its Store or Delete
RegisterReturns == reg.pc = "notify" /\ reg'.pc = "idle"

\* C16: a Register or Deregister call that changed its registry on a server
\* whose Serve has returned sends, as it returns, exactly one list_changed
\* notification of its own kind with null params and no other message; on a
\* server that is not running the call sends nothing; the Store or Delete
\* itself sends nothing, and no other step sends a list_changed notification.
C16_ListChangedOnce ==
    [][ /\ (RegisterReturns /\ isRunning) =>
               messages' = messages (+) SetToBag({ListChanged(reg.kind)})
        /\ (RegisterReturns /\ ~isRunning) => messages' = messages
        /\ (reg.pc = "idle" /\ reg'.pc = "notify") => messages' = messages
        /\ \A kind \in Kinds :
               CopiesIn(ListChanged(kind), messages') # CopiesIn(ListChanged(kind), messages)
                   => (RegisterReturns /\ reg.kind = kind)
      ]_vars

\* a running server after RegisterTool and DeregisterTool: two notifications
C16_Witness ==
    /\ isRunning
    /\ reg.pc = "idle"
    /\ tools[<<97>>] = 0
    /\ CopiesIn(ListChanged("tools"), messages) = 2
    /\ BagCardinality(messages) = 2

\* the registry a call method looks its name up in
CallRegistry(method) ==
    CASE method = "tools/call" -> tools
      [] method = "prompts/get" -> prompts
      [] method = "resources/read" -> resources
UnknownName(method) ==
    CASE method = "tools/call" -> "unknown tool: tools/call"
      [] method = "prompts/get" -> "unknown prompt: prompts/get"
      [] method = "resources/read" -> "unknown prompt: resources/read"
\* the step of a Register or Deregister call that changes its registry
RegistryStep == reg.pc = "idle" /\ reg'.pc = "notify"
\* a request was answered in this step, with a method of the set
Answered(methods) == reply' # reply /\ reply'.method \in methods
\* the params of the call unmarshalled, so that it names something
NamesAKey(r) == ~(r.kind = "error" /\ r.text = "failed to unmarshal arguments")
\* how many times k is in q
Times(k, q) == Cardinality({i \in 1..Len(q) : q[i] = k})

\* C17: Register(k, h) makes h the entry of k, Deregister(k) removes the entry
\* of k, both leave every other entry alone and nothing else changes a
\* registry, so that the entry of k is what the last operation on k left; a
\* list holds k once if k has an entry and not at all if it has none; a call
\* naming k invokes the handler that is the entry of k (unless the arguments
\* do not decode) and is an unknown-name error, invoking nothing, if k has no
\* entry.
C17_LastOperationWins ==
    [][ /\ RegistryStep =>
               /\ tools' = IF reg'.kind = "tools"
                           THEN [tools EXCEPT ![reg'.key] = reg'.h] ELSE tools
               /\ prompts' = IF reg'.kind = "prompts"
                             THEN [prompts EXCEPT ![reg'.key] = reg'.h] ELSE prompts
               /\ resources' = IF reg'.kind = "resources"
                               THEN [resources EXCEPT ![reg'.key] = reg'.h] ELSE resources
        /\ ~RegistryStep => UNCHANGED registries
        /\ (Answered(ListMethods) /\ reply'.cursor = <<>>) =>
               /\ reply'.kind = "result"
               /\ \A k \in Names :
                      Times(k, reply'.items) = IF RegistryOf(reply'.method)[k] # 0 THEN 1 ELSE 0
        /\ (Answered(CallMethods) /\ NamesAKey(reply')) =>
               LET entry == CallRegistry(reply'.method)[reply'.name]
               IN  IF entry = 0
                   THEN /\ reply'.kind = "error"
                        /\ reply'.text = UnknownName(reply'.method)
                        /\ reply'.ran = 0
                   ELSE /\ reply'.kind # "error"
                        /\ reply'.ran = IF reply'.args = "bad" /\ reply'.method # "resources/read"
                                        THEN 0 ELSE entry
      ]_vars

\* "a" was registered with handler 1, then with handler 2, and a tools/call
\* to "a" ran handler 2
C17_Witness ==
    /\ reply.method = "tools/call" /\ reply.name = <<97>> /\ reply.ran = 2
    /\ tools[<<97>>] = 2
    /\ CopiesIn(ListChanged("tools"), messages) = 2

\* C18: a tools/call that names a registered tool is answered with a result
\* {content, isError} and never with a JSON-RPC error, whatever the arguments
\* and whatever the handler returns; isError is true, and content a single text
\* item with the error message, iff the arguments did not decode or the
\* handler returned an error; otherwise isError is false and content is the
\* content of the handler's response.
C18_ToolCallAlwaysResult ==
    (reply.method = "tools/call" /\ NamesAKey(reply)
         /\ ~(reply.kind = "error" /\ reply.text = UnknownName("tools/call"))) =>
        /\ reply.kind = "result"
        /\ reply.isError <=> (reply.args = "bad" \/ reply.outcome = "error")
        /\ reply.isError =>
               /\ reply.content = "text"
               /\ reply.text = IF reply.args = "bad" THEN "failed to unmarshal arguments"
                               ELSE "handler error"
        /\ ~reply.isError => reply.content = "response"

\* C19: a tools/call, prompts/get or resources/read whose name has no entry in
\* its registry is answered with a JSON-RPC error of code -32000 (for tools
\* with the message "unknown tool: ..."), invokes no user handler and changes
\* no registry.
C19_UnknownNameError ==
    [][ (Answered(CallMethods) /\ NamesAKey(reply')
             /\ CallRegistry(reply'.method)[reply'.name] = 0) =>
            /\ reply'.kind = "error"
            /\ reply'.code = 0 - 32000
            /\ reply'.method = "tools/call" => reply'.text = "unknown tool: tools/call"
            /\ reply'.ran = 0
            /\ UNCHANGED registries
      ]_vars

\* tools/call for "b" was answered with the error while "a" is registered
C19_Witness ==
    /\ reply.method = "tools/call" /\ reply.name = <<98>>
    /\ reply.kind = "error" /\ reply.code = 0 - 32000
    /\ reply.text = "unknown tool: tools/call"
    /\ tools[<<97>>] # 0 /\ tools[<<98>>] = 0

\* C20: the result of initialize has protocolVersion "2024-11-05" and
\* capabilities that declare tools, prompts and resources, each with
\* listChanged true, whatever the registries hold.
C20_InitializeResult ==
    reply.method = "initialize" =>
        /\ reply.kind = "result"
        /\ reply.version = "2024-11-05"
        /\ reply.caps = [tools |-> <<TRUE>>, prompts |-> <<TRUE>>, resources |-> <<TRUE>>]
\* ------------------------------------------------------------------- C21
\* a Client call rejected by the guard
Rejected == cli.pc = "idle" /\ cli'.pc = "idle" /\ cli' # cli

\* C21: a Client method other than Initialize called before an Initialize has
\* succeeded returns 'client not initialized'; Initialize called after one has
\* succeeded returns 'client already initialized'; either way nothing is sent
\* and no Request is made; every Request the Protocol runs belongs to a call
\* the guard let through; c.initialized becomes true only when an Initialize
\* returns without error, and a failed Initialize leaves it false
C21_ClientGate ==
    [][/\ \A c \in ReqCalls :
             /\ req'[c].pc # "idle" => cli'.used[c] # ""
             /\ cli'.used[c] # cli.used[c] =>
                    IF cli'.used[c] = "Initialize" THEN ~initialized ELSE initialized
       /\ (Rejected /\ cli'.op # "Initialize" /\ ~initialized) =>
              cli'.res = "client not initialized"
       /\ (Rejected /\ cli'.op = "Initialize" /\ initialized) =>
              cli'.res = "client already initialized"
       /\ Rejected => UNCHANGED <<messages, req, outMaps, lifeVars, initialized>>
       /\ (cli.pc = "idle" /\ cli'.pc # "idle") =>
              IF cli'.op = "Initialize" THEN ~initialized ELSE initialized
       /\ initialized' # initialized =>
              /\ initialized'
              /\ cli.op = "Initialize" /\ cli'.pc = "idle" /\ cli'.res = "ok"
       /\ (cli.pc = "request" /\ cli'.pc = "idle" /\ cli.op = "Initialize" /\ cli'.res # "ok") =>
              ~initialized'
      ]_vars

\* an Initialize has failed, and the ListTools after it was rejected with
\* nothing sent for it
C21_Witness ==
    /\ ~initialized
    /\ cli.pc = "idle" /\ cli.op = "ListTools" /\ cli.res = "client not initialized"
    /\ \E c \in ReqCalls : cli.used[c] = "Initialize" /\ req[c].pc = "done"
    /\ \A c \in ReqCalls : cli.used[c] # "ListTools"

\* after a successful Initialize a second one was rejected
C21_AlreadyInitialized ==
    initialized /\ cli.pc = "idle" /\ cli.op = "Initialize"
    /\ cli.res = "client already initialized"

\* ------------------------------------------------------------------- C22
\* the newline-terminated segments of a byte sequence, newline excluded
RECURSIVE Segments(_)
Segments(s) ==
    IF \A i \in 1..Len(s) : s[i] # NewLine THEN <<>>
    ELSE LET i == CHOOSE i \in 1..Len(s) : s[i] = NewLine /\ \A j \in 1..(i - 1) : s[j] # NewLine
         IN <<SubSeq(s, 1, i - 1)>> \o Segments(SubSeq(s, i + 1, Len(s)))

\* the bytes after the last newline
RECURSIVE Remainder(_)
Remainder(s) ==
    IF \A i \in 1..Len(s) : s[i] # NewLine THEN s
    ELSE LET i == CHOOSE i \in 1..Len(s) : s[i] = NewLine /\ \A j \in 1..(i - 1) : s[j] # NewLine
         IN Remainder(SubSeq(s, i + 1, Len(s)))

Buffered == IF buffer = <<>> THEN <<>> ELSE buffer[1]
Arrived == SubSeq(wire, 1, fed)

\* the lines read are the first segments of what has arrived, the buffer holds
\* the rest
Framed ==
    /\ Len(lines) <= Len(Segments(Arrived))
    /\ lines = SubSeq(Segments(Arrived), 1, Len(lines))
    /\ Segments(Buffered) = SubSeq(Segments(Arrived), Len(lines) + 1, Len(Segments(Arrived)))
    /\ Remainder(Buffered) = Remainder(Arrived)
    /\ lastRead # <<>> => Len(lines) > 0 /\ lastRead[1] = lines[Len(lines)]

\* C22: however the stream is cut into chunks, the lines ReadMessage has
\* yielded are the first newline-terminated segments of the bytes appended so
\* far, in wire order and without their newline, and the buffer holds the
\* segments not yet read and the bytes after the last newline; a ReadMessage
\* call yields the next segment and only that one, and yields nothing iff the
\* buffer holds no newline
C22_Framing ==
    [][/\ Framed'
       /\ ReadBuffer_ReadMessage =>
              IF \A i \in 1..Len(Buffered) : Buffered[i] # NewLine
              THEN lastRead' = <<>> /\ lines' = lines /\ buffer' = buffer
              ELSE /\ Len(lines') = Len(lines) + 1
                   /\ lastRead' = <<Segments(Buffered)[1]>>
      ]_vars

\* the whole stream has arrived; a two-byte segment has been read after an
\* earlier one, and bytes after the last newline are still buffered
C22_Witness ==
    /\ Len(lines) = 2
    /\ Len(lines[2]) = 2
    /\ lastRead = <<lines[2]>>
    /\ Len(Buffered) > 0
    /\ fed = Len(wire)

\* ------------------------------------------------------------------- C23
\* the kind the members of a message give it
KindOf(d) ==
    IF d.id /\ d.method # "absent" THEN "request"
    ELSE IF d.method # "absent" THEN "notification"
    ELSE IF d.id /\ d.error # "absent" THEN "error"
    ELSE "response"

\* C23: a message that parses is delivered as the kind its members give it:
\* Request iff id and method, Notification iff method and no id, Error iff id
\* and error, otherwise Response, by deserializeMessage and by HandleMessage
C23_Classified ==
    doc.valid =>
        /\ parsed # "none" => parsed = KindOf(doc)
        /\ handled # "none" => handled = KindOf(doc)

\* deserializeMessage alone classifies a well-formed message (jsonrpc present,
\* a method that is not empty, an error code other than 0) as C23 says, when
\* the decoders check the required members
C23_DeserializeWellFormed ==
    (doc.valid /\ strict /\ doc.jsonrpc /\ doc.method # "empty" /\ doc.error # "zero"
        /\ parsed # "none") => parsed = KindOf(doc)

\* ------------------------------------------------------------------- C24
\* C24: once a Close call has returned, it returned no error and the close
\* callback has been invoked exactly once, whatever Close and Start calls came
\* before
C24_CloseCallbackOnce ==
    \A k \in SseCallers :
        (sse[k].pc = "idle" /\ sse[k].op = "Close") =>
            sse[k].res = "nil" /\ closeCallbacks = 1

\* Close never returns an error, and the callback runs once per Close that
\* finds the transport started
C24_CloseReturnsNil ==
    /\ \A k \in SseCallers : (sse[k].pc = "idle" /\ sse[k].op = "Close") => sse[k].res = "nil"
    /\ closeCallbacks <= Cardinality({i \in 1..Len(written) : written[i] = DataLine(written[i].by, "endpoint")})

\* ------------------------------------------------------------------- C25
\* C25: a Start call on a started transport returns 'SSE transport already
\* started', writes nothing and leaves the transport started
C25_DoubleStart ==
    [][\A k \in SseCallers :
          (isConnected /\ sse[k].pc = "idle" /\ sse'[k].op = "Start" /\ sse'[k] # sse[k]) =>
              /\ sse'[k].pc = "idle"
              /\ sse'[k].res = "SSE transport already started"
              /\ written' = written
              /\ isConnected'
      ]_vars

\* a second Start has failed on the started transport: one endpoint event
C25_Witness ==
    /\ isConnected
    /\ \E k \in SseCallers : sse[k] = [pc |-> "idle", op |-> "Start",
                                       res |-> "SSE transport already started"]
    /\ written = <<EventLine(written[1].by, "endpoint"), DataLine(written[1].by, "endpoint")>>

\* ------------------------------------------------------------------- C26
\* every event in the output is whole: its event line is directly followed by
\* its data line, the last one excepted while its writer holds the lock
WholeEvents ==
    \A i \in 1..Len(written) :
        IF written[i].line = "event"
        THEN IF i = Len(written)
             THEN tmu = written[i].by /\ sse[written[i].by].pc = "writing"
             ELSE written[i + 1] = DataLine(written[i].by, written[i].event)
        ELSE i > 1 /\ written[i - 1] = EventLine(written[i].by, written[i].event)

\* every message event comes after a complete endpoint event
EndpointFirst ==
    \A i \in 1..Len(written) :
        written[i].event = "message" =>
            \E j \in 1..(i - 1) : written[j].event = "endpoint" /\ written[j].line = "data"

\* C26: a Send call on a transport that is not connected (closed, or never
\* started) returns an error and writes nothing; the events in the output are
\* whole, with no line of another event inside, and every message event comes
\* after an endpoint event
C26_SendAtomic ==
    [][/\ WholeEvents' /\ EndpointFirst'
       /\ \A k \in SseCallers :
             (~isConnected /\ sse[k].pc = "idle" /\ sse'[k].op = "Send" /\ sse'[k] # sse[k]) =>
                 /\ sse'[k].pc = "idle"
                 /\ sse'[k].res = "not connected"
                 /\ written' = written
      ]_vars

\* both callers have sent a message, the transport has been closed and a Send
\* after that was refused
C26_Witness ==
    /\ closeCallbacks = 1
    /\ ~isConnected
    /\ \E k \in SseCallers : sse[k] = [pc |-> "idle", op |-> "Send", res |-> "not connected"]
    /\ \A k \in SseCallers : \E i \in 1..Len(written) : written[i] = DataLine(k, "message")

\* ------------------------------------------------------------------- C27
\* Close call k, inside handleClose, holds p.mu
HoldsLock(k) == mu = k /\ cls[k].pc \in {"wake", "blocked"}

\* C27: the goroutine that invokes a user callback does not hold p.mu when it
\* does; here for OnClose, which handleClose invokes
C27_CallbacksOutsideLock ==
    [][onCloseCalls' # onCloseCalls =>
          \A k \in CloseCalls : cls'[k] # cls[k] => ~HoldsLock(k)
      ]_vars

\* ------------------------------------------------------------------- C28
\* a writer is stopped at its send because the one slot of the channel is taken
WriterBlocked ==
    \/ \E k \in CloseCalls : cls[k].pc = "blocked"
    \/ \E r \in RespSlots :
           resp[r].pc = "send" /\ ~chans[resp[r].ch].closed /\ Len(chans[resp[r].ch].buf) >= 1

\* a writer is about to send on a channel handleClose has closed
WriteOnClosed == \E r \in RespSlots : resp[r].pc = "send" /\ chans[resp[r].ch].closed

HasReturned(id) == \E c \in ReqCalls : req[c].pc = "done" /\ req[c].id = id

\* C29: the progress callback of a Request call is not invoked once the call
\* has returned
C29_NoCallbackAfterReturn ==
    [][\A n \in NotifSlots :
          (ntf[n].pc = "callback" /\ ntf'[n].pc = "done") => ~HasReturned(ntf[n].arg)
      ]_vars

\* a $/progress that arrives after the call has returned finds no callback
C29_LateProgressDropped ==
    [][\A n \in NotifSlots :
          (DecidesProgress(n) /\ ntf[n].arg \in OutIds /\ HasReturned(ntf[n].arg)) =>
              ntf'[n].pc = "done" /\ progressCalls' = progressCalls
      ]_vars

\* ------------------------------------------------------------------- C30
\* a response or an error response with this id has been sent
HasAnswer(id) == \E m \in BagToSet(messages) : m.kind \in {"response", "error"} /\ m.id = id

InFlight(i) == {g \in InSlots : inb[g].id = i /\ inb[g].pc \in {"registered", "running", "defer"}}

\* C31: before any Close, the canceller map holds an entry for inbound id i
\* iff a request with id i has been dispatched and its handler's goroutine has
\* not finished
C31_CancellerIffInFlight ==
    ~closed => \A i \in InIds : (requestCancellers[i] # 0) <=> (InFlight(i) # {})

\* with ids that differ among the inbound requests the map is as C31 says
C31_WithDistinctIds ==
    (~closed /\ \A g, o \in InSlots : (g # o /\ inb[g].id # NoId) => inb[g].id # inb[o].id)
        => \A i \in InIds : (requestCancellers[i] # 0) <=> (InFlight(i) # {})

EntersHandleClose(k) == cls[k].pc = "idle" /\ cls'[k].pc = "wake"
\* Close call k leaves handleClose in this step
LeavesHandleClose(k) == cls[k].pc \in {"wake", "blocked"} /\ cls'[k].pc = "done"

MapsEmpty ==
    /\ requestHandlers = {}
    /\ notificationHandlers = {}
    /\ \A i \in InIds : requestCancellers[i] = 0
    /\ responseHandlers = {}
    /\ progressHandlers = {}

\* C33: handleClose cancels the context of every inbound handler that is
\* executing when it runs, and when it is done the handler registries, the
\* canceller map, the response-waiter map and the progress-callback map are
\* empty
C33_CloseCancelsAndClears ==
    [][\A k \in CloseCalls :
          /\ EntersHandleClose(k) =>
                \A g \in InSlots : inb[g].pc = "running" => inb'[g].ctx = "cancelled"
          /\ LeavesHandleClose(k) => MapsEmpty'
      ]_vars

\* the maps are empty when handleClose is done
C33_MapsEmptyAfterClose == [][\A k \in CloseCalls : LeavesHandleClose(k) => MapsEmpty']_vars

\* with ids that differ among the inbound requests every executing handler's
\* context is cancelled
C33_WithDistinctIds ==
    [][\A k \in CloseCalls :
          (/\ EntersHandleClose(k)
           /\ \A g, o \in InSlots : (g # o /\ inb[g].id # NoId) => inb[g].id # inb[o].id) =>
              \A g \in InSlots : inb[g].pc = "running" => inb'[g].ctx = "cancelled"
      ]_vars

\* ------------------------------------------------------------------ C34
\* the Store or Delete at place j of history was followed by another one on
\* the same entry
Superseded(j) ==
    \E i \in (j + 1)..Len(history) :
        history[i].kind = history[j].kind /\ history[i].key = history[j].key
\* the registry shows the Store or Delete at place j, or a later state of its entry
Visible(j) ==
    RegistryOfKind(history[j].kind)[history[j].key] = history[j].h \/ Superseded(j)
\* the announced mutations that are the latest of their entry
Standing == {j \in announced : ~Superseded(j)}
KindOfMethod(method) ==
    CASE method \in {"tools/list", "tools/call"} -> "tools"
      [] method \in {"prompts/list", "prompts/get"} -> "prompts"
      [] method \in {"resources/list", "resources/read"} -> "resources"
\* a list answered in this step has the entry of every standing Register and
\* not that of a standing Deregister; a call answered in this step runs the
\* handler of a standing Register and no handler after a standing Deregister
ObservesAnnounced ==
    \A j \in Standing :
        /\ (Answered(ListMethods) /\ KindOfMethod(reply'.method) = history[j].kind)
               => ((Times(history[j].key, reply'.items) = 1) <=> (history[j].h # 0))
        /\ (Answered(CallMethods) /\ KindOfMethod(reply'.method) = history[j].kind
                /\ reply'.name = history[j].key)
               => reply'.ran = history[j].h

\* C34: when a list_changed notification has been sent, the registry mutation
\* that triggered it is visible: from then on the registry holds it or a later
\* state of the same entry, and every list or call answered afterwards
\* observes it, whatever the interleaving of the concurrent Register and
\* Deregister calls with each other and with the requests.
C34_NotifiedIsVisible ==
    /\ [](\A j \in announced : Visible(j))
    /\ [][ObservesAnnounced]_vars

\* two calls were between their Store / Delete and their notification at once,
\* the notification of the earlier one was sent after the later one took
\* effect, and a list was answered after it
C34_Witness ==
    /\ \E j \in announced : Superseded(j)
    /\ Standing # {}
    /\ reply.method \in ListMethods
    /\ reply.items # <<>>

\* ------------------------------------------------------------------ C39
\* goroutine w returns from its Register or Deregister call in this step
AnnounceStep(w) == mut[w].pc = "notify" /\ mut'[w].pc = "returned"
\* it does so on a connected, running server without the transport having
\* taken its notification: Send returned an error
SendFailed(w) ==
    AnnounceStep(w) /\ isRunning /\ transport # "nil" /\ messages' = messages

\* C39: when sending the list_changed notification fails, the Register or
\* Deregister call returns that error, and the Store or Delete it made stays
\* applied: the step leaves the registries as they are, and the registry
\* still shows the mutation or a later state of the same entry.
C39_FailedSendKeepsMutation ==
    [][\A w \in Mutators :
           SendFailed(w) =>
               /\ mut'[w].res = "send failed"
               /\ registries' = registries
               /\ Visible(mut[w].at)']_vars

\* a Register call returned the error of Send, and its entry is registered
C39_Witness ==
    \E w \in Mutators :
        /\ mut[w].pc = "returned"
        /\ mut[w].res = "send failed"
        /\ mut[w].h # 0
        /\ RegistryOfKind(mut[w].kind)[mut[w].key] = mut[w].h
        /\ mut[w].at \notin announced

\* ------------------------------------------------------------------ C35
\* Request call c, made with OnProgress and params that are neither nil nor
\* a map, gets past the registration of its channel in this step
BadParamsStep(c) ==
    req[c].pc = "build" /\ req[c].opt = "progressBadParams" /\ req'[c].pc # "build"
\* the request message of call c is among the messages sent
RequestSent(c) ==
    \E m \in BagToSet(messages) : m.kind = "request" /\ m.id = req[c].id

\* C35: a Request call with OnProgress set and params that are neither nil
\* nor a map returns the error "params must be nil or map" and sends no
\* message: the step that finds the params sends nothing and goes on to
\* return, and the request of such a call is never among the sent messages.
C35_BadProgressParamsRejected ==
    /\ [][\A c \in ReqCalls :
              BadParamsStep(c) =>
                  /\ messages' = messages
                  /\ req'[c].pc = "defer"
                  /\ req'[c].res = "params must be nil or map"]_vars
    /\ [](\A c \in ReqCalls :
              (req[c].opt = "progressBadParams" \/ req[c].res = "params must be nil or map")
                  => ~RequestSent(c))

\* a call with such params has returned its error while the request of
\* another call with OnProgress was sent
C35_Witness ==
    \E c, d \in ReqCalls :
        /\ req[c].pc = "done" /\ req[c].id # NoId
        /\ req[c].res = "params must be nil or map"
        /\ req[d].opt = "progress" /\ RequestSent(d)

\* ------------------------------------------------------------------ C36
\* the handler goroutine of notification n runs its handler in this step
NotificationHandled(n) == ntf[n].pc = "spawned" /\ ntf'[n].pc = "done"
\* handleNotification finds neither a handler nor a fallback for notification
\* n in this step
NotificationIgnored(n) == ntf[n].pc = "idle" /\ ntf'[n].pc = "done"

\* C36: the handler of an incoming notification sends nothing to the peer,
\* and the only thing it can report is "notification handler error", to
\* OnError; a notification with no handler and no fallback is ignored: no
\* message is sent, OnError and OnClose are not invoked, no progress callback
\* runs and no handler context is touched.
C36_NotificationErrorsStayLocal ==
    [][\A n \in NotifSlots :
           /\ NotificationHandled(n) =>
                  /\ messages' = messages
                  /\ onErrorCalls' \subseteq onErrorCalls \cup {"notification handler error"}
                  /\ onCloseCalls' = onCloseCalls
           /\ NotificationIgnored(n) =>
                  /\ messages' = messages
                  /\ cbVars' = cbVars
                  /\ progressCalls' = progressCalls
                  /\ inb' = inb]_vars

\* the handler registered for a notification returned an error, which OnError
\* was given, and nothing was sent
C36_Witness ==
    /\ "notifications/initialized" \in notificationHandlers
    /\ \E n \in NotifSlots : ntf[n].pc = "done"
    /\ onErrorCalls = {"notification handler error"}
    /\ messages = EmptyBag

\* a notification was ignored: no handler was ever registered for anything
C36_IgnoredWitness ==
    /\ notificationHandlers = {}
    /\ ~FallbackNotificationHandler
    /\ \E n \in NotifSlots : ntf[n].pc = "done"
    /\ onErrorCalls = {}

\* ------------------------------------------------------------------ C37
\* the frame is a JSON object
WellFormed(frame) == ParseLine(frame).valid
\* ReadMessage takes a line out of the buffer in this step
ReadsLine == Len(lines') = Len(lines) + 1

\* C37: a malformed frame is reported and delivers no message (ReadMessage
\* returns an error for the line, HandleMessage calls OnError and returns the
\* error for the body), and reading goes on: ReadMessage has taken the
\* malformed line and its newline out of the buffer, the lines read are the
\* first frames that arrived, each read once and in order, and each
\* well-formed one among them was returned as a message; a body posted after
\* a malformed one is handled as if it were the first.
C37_MalformedFrameSkipped ==
    /\ [](/\ Len(returned) = Len(lines)
          /\ lines = SubSeq(Segments(Arrived), 1, Len(lines))
          /\ \A i \in 1..Len(lines) : (returned[i] = "failed") <=> ~WellFormed(lines[i])
          /\ \A i \in 1..Len(posts) :
                 /\ ~WellFormed(posts[i].body) => posts[i].out = "failed"
                 /\ posts[i].out = HandleMessage(ParseLine(posts[i].body)))
    /\ [][ReadsLine =>
              /\ Len(Buffered') = Len(Buffered) - Len(lines'[Len(lines')]) - 1
              /\ Segments(Buffered') = Tail(Segments(Buffered))]_vars

\* a malformed line was read and reported, the well-formed line after it was
\* returned as a message, and the same happened with two posted bodies
C37_Witness ==
    /\ Len(lines) = 2
    /\ ~WellFormed(lines[1]) /\ WellFormed(lines[2])
    /\ returned = <<"failed", "response">>
    /\ Len(posts) = 2
    /\ posts[1].out = "failed"
    /\ posts[2].out = "response"

\* ------------------------------------------------------------------ C38
\* C38: a Register or Deregister call whose Store or Delete was made once
\* Serve had started the transport does not return silently: as it returns,
\* its list_changed notification is sent, or the error of sending it is
\* returned.
C38_NoSilentMutation ==
    [][\A w \in Mutators :
           (AnnounceStep(w) /\ mut[w].live) =>
               \/ messages' = messages (+) SetToBag({ListChanged(mut[w].kind)})
               \/ mut'[w].res # "nil"]_vars

\* without the window between pr.Connect and s.isRunning = true: the same for
\* the calls whose Store or Delete was made after Serve returned
C38_AfterServeReturned ==
    [][\A w \in Mutators :
           (AnnounceStep(w) /\ mut[w].live /\ isRunning) =>
               \/ messages' = messages (+) SetToBag({ListChanged(mut[w].kind)})
               \/ mut'[w].res # "nil"]_vars

\* ------------------------------------------------------------------ C40
\* the answer to a list request is no fault of the handler, and an empty page
\* comes without nextCursor
NoFaultOnEmptyPage ==
    reply.method \in ListMethods =>
        /\ reply.kind # "panic"
        /\ (reply.kind = "result" /\ reply.items = <<>>) => reply.next = <<>>

\* C40: whatever the pagination limit (0 included), the cursor and the
\* registry (the empty one included), a list handler does not fault on an
\* empty page: no handler goroutine panics, and an empty page is a result
\* with no entries and no nextCursor.
C40_EmptyPageNoFault == ~panicked /\ NoFaultOnEmptyPage

\* the same on the servers whose pagination limit is not 0
C40_WithPositiveLimit == paginationLimit # <<0>> => (~panicked /\ NoFaultOnEmptyPage)

====
